---- MODULE Spec2Model ----
(***************************************************************************)
(* Graph evaluation engine of lamp-studio (GraphEvaluator) together with   *)
(* the part of the node registry it dispatches to.  The evaluator is       *)
(* modelled as the JavaScript call stack of its methods: every frame holds *)
(* the method, its position and its locals.                                *)
(***************************************************************************)
EXTENDS Integers, Sequences, FiniteSets, TLC

\* ---------------------------------------------------------------- bounds
MaxNodes == 2      \* nodes of a graph the whole interface is exercised on
MaxPassNodes == 3  \* nodes of a graph a single evaluateGraph() pass is run on
MaxConns == 2      \* connections of a graph
MaxCalls == 2      \* public calls made on one evaluator
MaxStack == 10     \* call-stack frames before the engine raises RangeError

\* ---------------------------------------------------------------- values
\* Port values are dynamically typed ("any"); a value is a kind and a payload.
Undef == [k |-> "undefined", v |-> 0]
Num(n) == [k |-> "number", v |-> n]
\* PatternInstance[] with n entries
Pattern(n) == [k |-> "pattern", v |-> n]
\* THREE.BufferGeometry with n triangles
Geometry(n) == [k |-> "geometry", v |-> n]

\* true (1) or false (0)
Bool(b) == [k |-> "boolean", v |-> IF b THEN 1 ELSE 0]
Str(s) == [k |-> "string", v |-> s]
\* InterpolatableShape[] with n entries
Shapes(n) == [k |-> "shapes", v |-> n]
\* CrossSection2D[] with n entries
Sections(n) == [k |-> "sections", v |-> n]

\* JavaScript truthiness: undefined, 0 and false are falsy, arrays and
\* objects truthy
Truthy(x) == ~(x.k = "undefined" \/ (x.k \in {"number", "boolean"} /\ x.v = 0))

\* Array.isArray(x)
IsArray(x) == x.k \in {"pattern", "shapes", "sections"}

\* record access obj[key], undefined when the key is absent
Get(obj, key) == IF key \in DOMAIN obj THEN obj[key] ELSE Undef

\* obj[key] = val
Put(obj, key, val) == [x \in DOMAIN obj \cup {key} |-> IF x = key THEN val ELSE obj[x]]

\* the object literal {}
EmptyRecord == [x \in {} |-> Undef]

\* Object.assign(target, source)
ObjectAssign(target, source) ==
  [x \in DOMAIN target \cup DOMAIN source |->
     IF x \in DOMAIN source THEN source[x] ELSE target[x]]

\* ------------------------------------------------------------- numbers
\* The geometry functions compute on JavaScript numbers.  A number is kept
\* as an exact fraction <<numerator, denominator>> in lowest terms with a
\* positive denominator; rounding of the floating-point operations is not
\* represented.
Abs(n) == IF n < 0 THEN -n ELSE n

RECURSIVE Gcd(_, _)
Gcd(a, b) == IF b = 0 THEN a ELSE Gcd(b, a % b)

Q(n, d) ==
  LET g == Gcd(Abs(n), Abs(d))
      s == IF d < 0 THEN -1 ELSE 1
  IN << (s * n) \div g, (s * d) \div g >>

QInt(n) == << n, 1 >>
QAdd(a, b) == Q(a[1] * b[2] + b[1] * a[2], a[2] * b[2])
QSub(a, b) == Q(a[1] * b[2] - b[1] * a[2], a[2] * b[2])
QMul(a, b) == Q(a[1] * b[1], a[2] * b[2])
QDiv(a, b) == Q(a[1] * b[2], a[2] * b[1])
QLt(a, b) == a[1] * b[2] < b[1] * a[2]
QLe(a, b) == a[1] * b[2] <= b[1] * a[2]

\* Math.sqrt, on the numbers whose root is a fraction
ISqrt(n) == CHOOSE r \in 0..n : r * r = n
QSqrt(a) == << ISqrt(a[1]), ISqrt(a[2]) >>

\* Point2D {x, y}
Point(x, y) == [x |-> QInt(x), y |-> QInt(y)]

RECURSIVE QSum(_)
\* the running sum  s += v  over a list of numbers
QSum(values) ==
  IF values = << >> THEN QInt(0)
  ELSE QAdd(QSum(SubSeq(values, 1, Len(values) - 1)), values[Len(values)])

\* -------------------------------------------------------------- registry
DefaultSteps == 10
DefaultHeight == 200
Segments == 16
DefaultSpineSteps == 20
DefaultFrequency == 2
StartRadius == 15
EndRadius == 5

NumberNode ==
  [inputs  |-> << [id |-> "value", defaultValue |-> Num(0)] >>,
   outputs |-> << [id |-> "value", type |-> "number"] >>]

\* of the twelve numeric inputs of the pattern node the two that decide the
\* number of instances are kept
Pattern2DNode ==
  [inputs  |-> << [id |-> "shape", defaultValue |-> Undef],
                  [id |-> "steps", defaultValue |-> Num(DefaultSteps)] >>,
   outputs |-> << [id |-> "pattern", type |-> "pattern"] >>]

LoftNode ==
  [inputs  |-> << [id |-> "crossSections", defaultValue |-> Undef],
                  [id |-> "height", defaultValue |-> Num(DefaultHeight)],
                  [id |-> "twist", defaultValue |-> Num(0)],
                  [id |-> "taper", defaultValue |-> Num(0)] >>,
   outputs |-> << [id |-> "geometry", type |-> "geometry"] >>]

\* of the ten numeric inputs of the spine node the two that decide how many
\* radii are computed and whether they are perturbed are kept; the start and
\* end radius and the remove frequency (0) are at their defaults
SpineNode ==
  [inputs  |-> << [id |-> "steps", defaultValue |-> Num(DefaultSpineSteps)],
                  [id |-> "radiusVariation", defaultValue |-> Num(0)] >>,
   outputs |-> << [id |-> "geometry", type |-> "geometry"] >>]

\* the input and transform nodes, with the inputs their execute reads
BooleanNode ==
  [inputs  |-> << [id |-> "value", defaultValue |-> Bool(FALSE)] >>,
   outputs |-> << [id |-> "value", type |-> "boolean"] >>]

ShapeSelectorNode ==
  [inputs  |-> << [id |-> "shape", defaultValue |-> Str("circle")] >>,
   outputs |-> << [id |-> "shape", type |-> "shape"] >>]

PatternToShapesNode ==
  [inputs  |-> << [id |-> "pattern", defaultValue |-> Undef],
                  [id |-> "removeShapes", defaultValue |-> Bool(FALSE)] >>,
   outputs |-> << [id |-> "shapes", type |-> "point2D[]"] >>]

CrossSectionsDefinition ==
  [inputs  |-> << [id |-> "shapes", defaultValue |-> Undef],
                  [id |-> "normalize", defaultValue |-> Bool(FALSE)],
                  [id |-> "easing", defaultValue |-> Str("linear")] >>,
   outputs |-> << [id |-> "crossSections", type |-> "crossSection"] >>]

AddHolesNode ==
  [inputs  |-> << [id |-> "crossSections", defaultValue |-> Undef],
                  [id |-> "frequency", defaultValue |-> Num(DefaultFrequency)] >>,
   outputs |-> << [id |-> "crossSections", type |-> "crossSection"] >>]

nodeDefinitions ==
  [t \in {"number", "boolean", "shapeSelector", "pattern2D", "spine",
          "patternToShapes", "crossSections", "addHoles", "loft"} |->
     CASE t = "number" -> NumberNode
       [] t = "boolean" -> BooleanNode
       [] t = "shapeSelector" -> ShapeSelectorNode
       [] t = "pattern2D" -> Pattern2DNode
       [] t = "spine" -> SpineNode
       [] t = "patternToShapes" -> PatternToShapesNode
       [] t = "crossSections" -> CrossSectionsDefinition
       [] t = "addHoles" -> AddHolesNode
       [] t = "loft" -> LoftNode]

\* getNodeDefinition(type) !== undefined
HasDefinition(type) == type \in DOMAIN nodeDefinitions

getNodeDefinition(type) == nodeDefinitions[type]

\* a node type that is not in the registry
UnknownType == "doesNotExist"

\* generatePattern2D: the loop  for (i = 0; i < steps; i++)  pushes one
\* instance per iteration; a non-numeric steps compares as NaN
generatePattern2D(steps) ==
  IF steps.k = "number" THEN Pattern(IF steps.v > 0 THEN steps.v ELSE 0)
  ELSE Pattern(0)

\* loftCrossSections3D applied to an array: an empty array gives an empty
\* geometry, an entry that is not a cross-section (no outer) makes
\* processPolygon read .length of undefined, a TypeError
LoftRaises(sections) == sections.k \in {"pattern", "shapes"} /\ sections.v > 0

\* x ?? fallback
OrElse(x, fallback) == IF x.k = "undefined" THEN fallback ELSE x

\* a plausible slip: the input handed on as it is
OrEmptyDropped(x) == x

\* x || []
OrEmpty(x) == IF Truthy(x) THEN x ELSE Sections(0)

\* the values Math.random() returns
MathRandom == { Q(1, 4), Q(3, 4) }

\* radiusVariation > 0, of the value on the input port
UsesRandom(radiusVariation) == radiusVariation.k = "number" /\ radiusVariation.v > 0

\* a plausible slip: the perturbation applied whatever the variation is
SpineVariationUnguarded(radiusVariation, baseRadius, random) ==
  QMul(QSub(random, Q(1, 2)), baseRadius)

\* shellFactory.ts lines 288-290: the perturbation of one radius, random
\* being what Math.random() returns if it is called
SpineVariation(radiusVariation, baseRadius, random) ==
  IF UsesRandom(radiusVariation)
  THEN QMul(QMul(QSub(random, Q(1, 2)), QInt(radiusVariation.v)), baseRadius)
  ELSE QInt(0)

\* a plausible slip: the steps counted from one
SpinePointRemovedFromOne(removeFrequency, i) ==
  removeFrequency > 0 /\ (i + 1) % removeFrequency = 0

\* shellFactory.ts lines 282-284: step i (from 0) is skipped
SpinePointRemoved(removeFrequency, i) ==
  removeFrequency > 0 /\ i % removeFrequency = 0

\* generateSpinePoints: the radius of each point pushed (the positions depend
\* on the inputs at their defaults only); randoms[i] is the value
\* Math.random() has at step i.  With one step t is 0/0.
generateSpinePoints(steps, radiusVariation, removeFrequency, randoms) ==
  LET Kept(i) == ~SpinePointRemoved(removeFrequency, i - 1)
      kept == SelectSeq([i \in 1..steps |-> i], Kept)
  IN [j \in 1..Len(kept) |->
        IF steps = 1 THEN "NaN"
        ELSE LET t == Q(kept[j] - 1, steps - 1)
                 baseRadius == QAdd(QInt(StartRadius),
                                    QMul(QInt(EndRadius - StartRadius), t))
                 radius == QAdd(baseRadius,
                                SpineVariation(radiusVariation, baseRadius,
                                               randoms[kept[j]]))
             IN IF QLt(radius, Q(1, 10)) THEN Q(1, 10) ELSE radius]

\* inputs.steps || 20
SpineSteps(inputs) ==
  IF Truthy(Get(inputs, "steps")) THEN Get(inputs, "steps").v ELSE DefaultSpineSteps

\* inputs.radiusVariation ?? 0
SpineRadiusVariation(inputs) ==
  IF Get(inputs, "radiusVariation") = Undef THEN Num(0)
  ELSE Get(inputs, "radiusVariation")

\* what the calls of Math.random() in one execute can return: one value for
\* each point of a spine, none for the other node types
RandomDraws(type, inputs) ==
  IF type = "spine" THEN [1..SpineSteps(inputs) -> MathRandom] ELSE { << >> }

\* definition.execute(inputs, context): [threw, outputs]
Execute(type, inputs, randoms) ==
  CASE type = "number" ->
         [threw |-> FALSE,
          outputs |-> [value |-> IF Get(inputs, "value") = Undef THEN Num(0)
                                 ELSE Get(inputs, "value")]]
    [] type = "pattern2D" ->
         [threw |-> FALSE,
          outputs |-> [pattern |->
             generatePattern2D(IF Truthy(Get(inputs, "steps"))
                               THEN Get(inputs, "steps") ELSE Num(DefaultSteps))]]
    [] type = "spine" ->
         [threw |-> FALSE,
          outputs |-> [geometry |->
             Geometry(generateSpinePoints(SpineSteps(inputs),
                                          SpineRadiusVariation(inputs), 0, randoms))]]
    [] type = "boolean" ->
         [threw |-> FALSE,
          outputs |-> [value |-> OrElse(Get(inputs, "value"), Bool(FALSE))]]
    [] type = "shapeSelector" ->
         [threw |-> FALSE,
          outputs |-> [shape |-> OrElse(Get(inputs, "shape"), Str("circle"))]]
    [] type = "patternToShapes" ->
         \* instances.filter is not a function unless the input is an
         \* array; the entries at even indices are kept
         IF ~Truthy(Get(inputs, "pattern"))
         THEN [threw |-> FALSE, outputs |-> [shapes |-> Shapes(0)]]
         ELSE IF ~IsArray(Get(inputs, "pattern"))
              THEN [threw |-> TRUE, outputs |-> EmptyRecord]
              ELSE [threw |-> FALSE,
                    outputs |-> [shapes |-> Shapes((Get(inputs, "pattern").v + 1) \div 2)]]
    [] type = "crossSections" ->
         \* normalizing reads .points.length of every entry, a TypeError
         \* for an entry that is not a shape
         IF ~Truthy(Get(inputs, "shapes")) \/ ~IsArray(Get(inputs, "shapes"))
         THEN [threw |-> FALSE, outputs |-> [crossSections |-> Sections(0)]]
         ELSE IF /\ Truthy(OrElse(Get(inputs, "normalize"), Bool(FALSE)))
                 /\ Get(inputs, "shapes").k # "shapes" /\ Get(inputs, "shapes").v > 0
              THEN [threw |-> TRUE, outputs |-> EmptyRecord]
              ELSE [threw |-> FALSE,
                    outputs |-> [crossSections |-> Sections(Get(inputs, "shapes").v)]]
    [] type = "addHoles" ->
         \* the hole of entry 0 reads outer.length, a TypeError for an entry
         \* that is not a cross-section; index % 0 is NaN and adds no hole
         IF ~Truthy(Get(inputs, "crossSections")) \/ ~IsArray(Get(inputs, "crossSections"))
         THEN [threw |-> FALSE,
               outputs |-> [crossSections |-> OrEmpty(Get(inputs, "crossSections"))]]
         ELSE IF /\ Get(inputs, "crossSections").k # "sections"
                 /\ Get(inputs, "crossSections").v > 0
                 /\ OrElse(Get(inputs, "frequency"), Num(DefaultFrequency)).k = "number"
                 /\ OrElse(Get(inputs, "frequency"), Num(DefaultFrequency)).v # 0
              THEN [threw |-> TRUE, outputs |-> EmptyRecord]
              ELSE [threw |-> FALSE,
                    outputs |-> [crossSections |-> Get(inputs, "crossSections")]]
    [] type = "loft" ->
         IF ~Truthy(Get(inputs, "crossSections")) \/ ~IsArray(Get(inputs, "crossSections"))
         THEN [threw |-> FALSE, outputs |-> [geometry |-> Geometry(0)]]
         ELSE IF LoftRaises(Get(inputs, "crossSections"))
              THEN [threw |-> TRUE, outputs |-> EmptyRecord]
              ELSE [threw |-> FALSE, outputs |-> [geometry |-> Geometry(0)]]

\* ---------------------------------------------------------------- graphs
\* GraphNode: [id, type, inputValues]; NodeConnection: [fromNodeId,
\* fromPortId, toNodeId, toPortId].  The editor-only fields (position,
\* connection id) are not read by the evaluator.
OverrideValue == 2
SpineStepsValue == 2

\* the node instances a graph is built from: each registered type with no
\* override, a number node with an override typed into its field, and a
\* node of a type the registry does not have
NodeKinds ==
  { [type |-> "number", inputValues |-> EmptyRecord],
    [type |-> "number", inputValues |-> [value |-> Num(OverrideValue)]],
    [type |-> "pattern2D", inputValues |-> EmptyRecord],
    [type |-> "loft", inputValues |-> EmptyRecord],
    [type |-> UnknownType, inputValues |-> EmptyRecord] }

\* spine nodes of SpineStepsValue points, without and with a radius variation
\* typed into the field
SpineKinds ==
  { [type |-> "spine", inputValues |-> [steps |-> Num(SpineStepsValue)]],
    [type |-> "spine", inputValues |-> [steps |-> Num(SpineStepsValue),
                                        radiusVariation |-> Num(1)]] }

SeqsUpTo(S, n) == UNION { [1..k -> S] : k \in 0..n }

MakeNodes(kinds) ==
  [j \in 1..Len(kinds) |->
     [id |-> j, type |-> kinds[j].type, inputValues |-> kinds[j].inputValues]]

\* the output port a connection is dragged from
OutPort(type) ==
  IF HasDefinition(type) THEN getNodeDefinition(type).outputs[1].id ELSE "value"

\* the input port a connection is dropped on
ConnPort(type) ==
  CASE type = "number" -> "value"
    [] type = "pattern2D" -> "steps"
    [] type = "spine" -> "radiusVariation"
    [] type = "loft" -> "crossSections"
    [] OTHER -> "value"

Candidates(nodes) ==
  { [fromNodeId |-> a, fromPortId |-> OutPort(nodes[a].type),
     toNodeId |-> b, toPortId |-> ConnPort(nodes[b].type)] :
       a \in 1..Len(nodes), b \in 1..Len(nodes) }

\* the graphs of at most n nodes of the given kinds and at most MaxConns
\* connections
GraphsOf(kinds, n) ==
  UNION { { [nodes |-> MakeNodes(ks), connections |-> cs] :
              cs \in SeqsUpTo(Candidates(MakeNodes(ks)), MaxConns) } :
          ks \in SeqsUpTo(kinds, n) }

Graphs(n) == GraphsOf(NodeKinds, n)

\* ----------------------------------------------------------------- state
VARIABLES
  graph,        \* this.graph
  cache,        \* this.cache: Map node id -> outputs
  stack,        \* call stack of evaluator methods
  evaluated,    \* evaluateGraph: const evaluated = new Set()
  visiting,     \* evaluateGraph: const visiting = new Set()
  thrown,       \* exception that left the last public call, or "none"
  result,       \* value returned by the last getNodeOutput
  geometries,   \* getGeometryOutputs: const geometries = []
  history,      \* public calls made so far
  log,          \* console output and execute invocations (observation only)
  call,         \* geometry function under evaluation and its arguments
  ret           \* value that function returned

vars ==
  <<graph, cache, stack, evaluated, visiting, thrown, result, geometries, history, log,
    call, ret>>

\* no geometry function is being evaluated / none has returned
NoCall == [fn |-> "none"]
NoReturn == [k |-> "pending"]

NodeIds == { graph.nodes[j].id : j \in 1..Len(graph.nodes) }

\* this.graph.nodes.find(n => n.id === nodeId)
HasNode(nodeId) == \E j \in 1..Len(graph.nodes) : graph.nodes[j].id = nodeId

FindNode(nodeId) ==
  graph.nodes[CHOOSE j \in 1..Len(graph.nodes) :
                 /\ graph.nodes[j].id = nodeId
                 /\ \A h \in 1..(j - 1) : graph.nodes[h].id # nodeId]

RECURSIVE FilterSeq(_, _, _)
\* indices j >= from of connections with toNodeId = nodeId, in list order
FilterSeq(conns, nodeId, from) ==
  IF from > Len(conns) THEN << >>
  ELSE IF conns[from].toNodeId = nodeId
       THEN << from >> \o FilterSeq(conns, nodeId, from + 1)
       ELSE FilterSeq(conns, nodeId, from + 1)

\* this.graph.connections.filter(c => c.toNodeId === nodeId), as indices
IncomingConnections(nodeId) == FilterSeq(graph.connections, nodeId, 1)

EmptyCache == [x \in {} |-> EmptyRecord]

\* a plausible slip: the cache is never consulted
CacheHasNever(nodeId) == FALSE

\* this.cache.has(nodeId)
CacheHas(nodeId) == nodeId \in DOMAIN cache

ZeroCounts == [n \in NodeIds |-> 0]

EmptyLog ==
  [unknown   |-> ZeroCounts,   \* "Unknown node type" warnings, this call
   circular  |-> 0,            \* "Circular dependency" warnings, this call
   uncached  |-> {},           \* connections read with no cached source, this call
   raised    |-> {},           \* nodes whose execute raised, since the cache was cleared
   execs     |-> ZeroCounts,   \* execute invocations, since the cache was cleared
   getExecs  |-> ZeroCounts,   \* of these, the ones made under a public getNodeOutput
   inputs    |-> EmptyCache,   \* inputs handed to execute, since the cache was cleared
   varied    |-> {},           \* nodes whose execute has called Math.random()
   previous  |-> EmptyCache]   \* the cache as the repeated pass found it

LogNewCall(l) == [l EXCEPT !.unknown = ZeroCounts, !.circular = 0, !.uncached = {}]

LogCacheClear(l) ==
  [l EXCEPT !.raised = {}, !.execs = ZeroCounts, !.getExecs = ZeroCounts,
            !.inputs = EmptyCache]

Frame(fn, node, port) ==
  [fn |-> fn, pc |-> "enter", node |-> node, i |-> 1, inputs |-> EmptyRecord, port |-> port]

Top == stack[Len(stack)]

SetTop(f) == [stack EXCEPT ![Len(stack)] = f]

Pop == SubSeq(stack, 1, Len(stack) - 1)

\* a method call: the caller moves on to newTop and the callee is entered;
\* when the stack is exhausted the engine throws RangeError, which no
\* handler of the evaluator catches
CallFrom(newTop, callee) ==
  IF Len(stack) >= MaxStack
  THEN stack' = << >> /\ thrown' = "RangeError"
  ELSE stack' = Append(SetTop(newTop), callee) /\ thrown' = thrown

\* new GraphEvaluator(graph)
Constructed(graphs) ==
  /\ graph \in graphs
  /\ cache = EmptyCache
  /\ stack = << >>
  /\ evaluated = {}
  /\ visiting = {}
  /\ thrown = "none"
  /\ result = Undef
  /\ geometries = << >>
  /\ history = << >>
  /\ log = EmptyLog

Init == Constructed(Graphs(MaxNodes)) /\ call = NoCall /\ ret = NoReturn

\* the evaluator of a larger graph, on which one evaluateGraph() pass is run
InitPass == Constructed(Graphs(MaxPassNodes)) /\ call = NoCall /\ ret = NoReturn

\* ---------------------------------------------------------- public calls
\* the evaluator is synchronous: a public call is made when none is running
CanCall == stack = << >> /\ Len(history) < MaxCalls

CallEvaluateGraph ==
  /\ CanCall
  /\ stack' = << Frame("evaluateGraph", 0, "") >>
  /\ history' = Append(history, [op |-> "evaluateGraph", node |-> 0])
  /\ thrown' = "none"
  /\ log' = LogNewCall(log)
  /\ UNCHANGED <<call, ret, graph, cache, evaluated, visiting, result, geometries>>

CallGetNodeOutput ==
  /\ CanCall
  /\ \E n \in NodeIds :
       /\ stack' = << Frame("getNodeOutput", n, OutPort(FindNode(n).type)) >>
       /\ history' = Append(history, [op |-> "getNodeOutput", node |-> n])
  /\ thrown' = "none"
  /\ log' = LogNewCall(log)
  /\ UNCHANGED <<call, ret, graph, cache, evaluated, visiting, result, geometries>>

CallGetGeometryOutputs ==
  /\ CanCall
  /\ stack' = << Frame("getGeometryOutputs", 0, "") >>
  /\ history' = Append(history, [op |-> "getGeometryOutputs", node |-> 0])
  /\ thrown' = "none"
  /\ log' = LogNewCall(log)
  /\ UNCHANGED <<call, ret, graph, cache, evaluated, visiting, result, geometries>>

\* clearCache()
clearCache ==
  /\ CanCall
  /\ cache' = EmptyCache
  /\ history' = Append(history, [op |-> "clearCache", node |-> 0])
  /\ thrown' = "none"
  /\ log' = LogCacheClear(LogNewCall(log))
  /\ UNCHANGED <<call, ret, graph, stack, evaluated, visiting, result, geometries>>

\* ---------------------------------------------------------- evaluateGraph
\* lines 99-103: clear the cache, fresh evaluated and visiting sets
EvaluateGraphEnter ==
  /\ stack # << >> /\ Top.fn = "evaluateGraph" /\ Top.pc = "enter"
  /\ cache' = EmptyCache
  /\ evaluated' = {}
  /\ visiting' = {}
  /\ log' = LogCacheClear(log)
  /\ stack' = SetTop([Top EXCEPT !.pc = "loop", !.i = 1])
  /\ UNCHANGED <<call, ret, graph, thrown, result, geometries, history>>

\* lines 130-132: for (const node of this.graph.nodes) visit(node.id)
EvaluateGraphLoop ==
  /\ stack # << >> /\ Top.fn = "evaluateGraph" /\ Top.pc = "loop"
  /\ IF Top.i <= Len(graph.nodes)
     THEN CallFrom([Top EXCEPT !.i = Top.i + 1],
                   Frame("visit", graph.nodes[Top.i].id, ""))
     ELSE stack' = Pop /\ thrown' = thrown
  /\ UNCHANGED <<call, ret, graph, cache, evaluated, visiting, result, geometries, history, log>>

\* dependencies = connections.filter(c => c.toNodeId === nodeId).map(c => c.fromNodeId)
Dependencies(nodeId) ==
  [j \in 1..Len(IncomingConnections(nodeId)) |->
     graph.connections[IncomingConnections(nodeId)[j]].fromNodeId]

\* a plausible slip: the cycle check is left out
IsVisitingNever(nodeId) == FALSE

\* visiting.has(nodeId)
IsVisiting(nodeId) == nodeId \in visiting

\* a plausible slip: visit without the check of the evaluated set
IsEvaluatedNever(nodeId) == FALSE

\* line 105: evaluated.has(nodeId)
IsEvaluated(nodeId) == nodeId \in evaluated

\* lines 106-112: the evaluated and visiting checks, visiting.add
VisitEnter ==
  /\ stack # << >> /\ Top.fn = "visit" /\ Top.pc = "enter"
  /\ IF IsEvaluated(Top.node)
     THEN /\ stack' = Pop
          /\ UNCHANGED <<visiting, log>>
     ELSE IF IsVisiting(Top.node)
          THEN /\ log' = [log EXCEPT !.circular = @ + 1]
               /\ stack' = Pop
               /\ UNCHANGED visiting
          ELSE /\ visiting' = visiting \cup {Top.node}
               /\ stack' = SetTop([Top EXCEPT !.pc = "deps", !.i = 1])
               /\ UNCHANGED log
  /\ UNCHANGED <<call, ret, graph, cache, evaluated, thrown, result, geometries, history>>

\* lines 119-124: visit every dependency, then evaluate this node
VisitDeps ==
  /\ stack # << >> /\ Top.fn = "visit" /\ Top.pc = "deps"
  /\ IF Top.i <= Len(Dependencies(Top.node))
     THEN CallFrom([Top EXCEPT !.i = Top.i + 1],
                   Frame("visit", Dependencies(Top.node)[Top.i], ""))
     ELSE CallFrom([Top EXCEPT !.pc = "evaluated"],
                   Frame("evaluateNode", Top.node, ""))
  /\ UNCHANGED <<call, ret, graph, cache, evaluated, visiting, result, geometries, history, log>>

\* lines 125-126: evaluated.add, visiting.delete
VisitExit ==
  /\ stack # << >> /\ Top.fn = "visit" /\ Top.pc = "evaluated"
  /\ evaluated' = evaluated \cup {Top.node}
  /\ visiting' = visiting \ {Top.node}
  /\ stack' = Pop
  /\ UNCHANGED <<call, ret, graph, cache, thrown, result, geometries, history, log>>

\* ----------------------------------------------------------- evaluateNode
\* lines 42-44: inputs[inputPort.id] = inputPort.defaultValue
DefaultInputs(definition) ==
  [p \in { definition.inputs[j].id : j \in 1..Len(definition.inputs) } |->
     definition.inputs[CHOOSE j \in 1..Len(definition.inputs) :
                          definition.inputs[j].id = p].defaultValue]

\* lines 29-44: find the node and its definition, start from the defaults
EvaluateNodeEnter ==
  /\ stack # << >> /\ Top.fn = "evaluateNode" /\ Top.pc = "enter"
  /\ IF ~HasNode(Top.node)
     THEN /\ stack' = Pop
          /\ UNCHANGED log
     ELSE IF ~HasDefinition(FindNode(Top.node).type)
          THEN /\ log' = [log EXCEPT !.unknown[Top.node] = @ + 1]
               /\ stack' = Pop
          ELSE /\ stack' = SetTop([Top EXCEPT
                      !.pc = "conns", !.i = 1,
                      !.inputs = DefaultInputs(getNodeDefinition(FindNode(Top.node).type))])
               /\ UNCHANGED log
  /\ UNCHANGED <<call, ret, graph, cache, evaluated, visiting, thrown, result, geometries, history>>

\* the connection the loop of lines 51-60 is at
CurrentConnection == graph.connections[IncomingConnections(Top.node)[Top.i]]

AtConnection ==
  /\ stack # << >> /\ Top.fn = "evaluateNode"
  /\ Top.pc \in {"conns", "read"}
  /\ Top.i <= Len(IncomingConnections(Top.node))

\* lines 53-55: evaluate the source node first if it is not cached
EvaluateNodeSource ==
  /\ AtConnection /\ Top.pc = "conns"
  /\ ~CacheHas(CurrentConnection.fromNodeId)
  /\ CallFrom([Top EXCEPT !.pc = "read"],
              Frame("evaluateNode", CurrentConnection.fromNodeId, ""))
  /\ UNCHANGED <<call, ret, graph, cache, evaluated, visiting, result, geometries, history, log>>

\* lines 56-59: read the source's outputs and overwrite the port's value
EvaluateNodeRead ==
  /\ AtConnection
  /\ Top.pc = "read" \/ CacheHas(CurrentConnection.fromNodeId)
  /\ IF CurrentConnection.fromNodeId \in DOMAIN cache
     THEN /\ stack' = SetTop([Top EXCEPT
                 !.pc = "conns", !.i = Top.i + 1,
                 !.inputs = Put(Top.inputs, CurrentConnection.toPortId,
                                Get(cache[CurrentConnection.fromNodeId],
                                    CurrentConnection.fromPortId))])
          /\ UNCHANGED log
     ELSE /\ stack' = SetTop([Top EXCEPT !.pc = "conns", !.i = Top.i + 1])
          /\ log' = [log EXCEPT !.uncached = @ \cup {IncomingConnections(Top.node)[Top.i]}]
  /\ UNCHANGED <<call, ret, graph, cache, evaluated, visiting, thrown, result, geometries, history>>

\* a plausible slip: the overrides are not applied
AssignOverridesDropped(inputs, node) == inputs

\* line 63: Object.assign(inputs, node.inputValues)
AssignOverrides(inputs, node) == ObjectAssign(inputs, node.inputValues)

\* a plausible slip: the catch block logs the error and caches nothing
CacheAfterExecuteNoCatchSet(c, nodeId, type, inputs, randoms) ==
  IF Execute(type, inputs, randoms).threw THEN c
  ELSE Put(c, nodeId, Execute(type, inputs, randoms).outputs)

\* lines 72-78: try { cache.set(nodeId, execute(...)) } catch { cache.set(nodeId, {}) }
CacheAfterExecute(c, nodeId, type, inputs, randoms) ==
  IF Execute(type, inputs, randoms).threw THEN Put(c, nodeId, EmptyRecord)
  ELSE Put(c, nodeId, Execute(type, inputs, randoms).outputs)

\* lines 62-78: apply the overrides, execute, cache the outputs
EvaluateNodeExecute ==
  /\ stack # << >> /\ Top.fn = "evaluateNode" /\ Top.pc = "conns"
  /\ Top.i > Len(IncomingConnections(Top.node))
  /\ LET node == FindNode(Top.node)
         inputs == AssignOverrides(Top.inputs, node)
     IN \E randoms \in RandomDraws(node.type, inputs) :
        /\ cache' = CacheAfterExecute(cache, Top.node, node.type, inputs, randoms)
        /\ log' = [log EXCEPT
              !.execs[Top.node] = @ + 1,
              !.getExecs[Top.node] = IF stack[1].fn = "getNodeOutput" THEN @ + 1 ELSE @,
              !.raised = IF Execute(node.type, inputs, randoms).threw
                         THEN @ \cup {Top.node} ELSE @ \ {Top.node},
              !.inputs = Put(@, Top.node, inputs),
              !.varied = IF node.type = "spine" /\ UsesRandom(SpineRadiusVariation(inputs))
                         THEN @ \cup {Top.node} ELSE @]
  /\ stack' = Pop
  /\ UNCHANGED <<call, ret, graph, evaluated, visiting, thrown, result, geometries, history>>

\* ---------------------------------------------------------- getNodeOutput
\* lines 86-89: evaluate the node first when it is not cached
GetNodeOutputEvaluate ==
  /\ stack # << >> /\ Top.fn = "getNodeOutput" /\ Top.pc = "enter"
  /\ ~CacheHas(Top.node)
  /\ CallFrom([Top EXCEPT !.pc = "read"], Frame("evaluateNode", Top.node, ""))
  /\ UNCHANGED <<call, ret, graph, cache, evaluated, visiting, result, geometries, history, log>>

\* lines 91-92: return outputs?.[outputId]
GetNodeOutputReturn ==
  /\ stack # << >> /\ Top.fn = "getNodeOutput"
  /\ Top.pc = "read" \/ CacheHas(Top.node)
  /\ result' = IF Top.node \in DOMAIN cache THEN Get(cache[Top.node], Top.port) ELSE Undef
  /\ stack' = Pop
  /\ UNCHANGED <<call, ret, graph, cache, evaluated, visiting, thrown, geometries, history, log>>

\* ----------------------------------------------------- getGeometryOutputs
\* definition.outputs.find(o => o.type === "geometry")
HasGeometryOutput(definition) ==
  \E j \in 1..Len(definition.outputs) : definition.outputs[j].type = "geometry"

GeometryOutput(definition) ==
  definition.outputs[CHOOSE j \in 1..Len(definition.outputs) :
                        /\ definition.outputs[j].type = "geometry"
                        /\ \A h \in 1..(j - 1) : definition.outputs[h].type # "geometry"]

\* lines 139-140: this.evaluateGraph(); const geometries = []
GetGeometryOutputsEnter ==
  /\ stack # << >> /\ Top.fn = "getGeometryOutputs" /\ Top.pc = "enter"
  /\ geometries' = << >>
  /\ CallFrom([Top EXCEPT !.pc = "loop", !.i = 1], Frame("evaluateGraph", 0, ""))
  /\ UNCHANGED <<call, ret, graph, cache, evaluated, visiting, result, history, log>>

\* lines 142-149: for each node with a geometry output, ask for that output
GetGeometryOutputsLoop ==
  /\ stack # << >> /\ Top.fn = "getGeometryOutputs" /\ Top.pc = "loop"
  /\ IF Top.i > Len(graph.nodes)
     THEN stack' = Pop /\ thrown' = thrown
     ELSE LET node == graph.nodes[Top.i] IN
          IF ~HasDefinition(node.type)
          THEN stack' = SetTop([Top EXCEPT !.i = Top.i + 1]) /\ thrown' = thrown
          ELSE IF ~HasGeometryOutput(getNodeDefinition(node.type))
               THEN stack' = SetTop([Top EXCEPT !.i = Top.i + 1]) /\ thrown' = thrown
               ELSE CallFrom([Top EXCEPT !.pc = "collect"],
                             Frame("getNodeOutput", node.id,
                                   GeometryOutput(getNodeDefinition(node.type)).id))
  /\ UNCHANGED <<call, ret, graph, cache, evaluated, visiting, result, geometries, history, log>>

\* lines 150-152: if (geometry && geometry instanceof THREE.BufferGeometry) push.
\* The module does not import THREE: the name resolves only when the build
\* puts a global THREE in scope, otherwise reading it throws ReferenceError.
GetGeometryOutputsCollect ==
  /\ stack # << >> /\ Top.fn = "getGeometryOutputs" /\ Top.pc = "collect"
  /\ IF ~Truthy(result)
     THEN /\ stack' = SetTop([Top EXCEPT !.pc = "loop", !.i = Top.i + 1])
          /\ UNCHANGED <<geometries, thrown>>
     ELSE \E threeInScope \in BOOLEAN :
            IF ~threeInScope
            THEN /\ stack' = << >>
                 /\ thrown' = "ReferenceError"
                 /\ UNCHANGED geometries
            ELSE /\ stack' = SetTop([Top EXCEPT !.pc = "loop", !.i = Top.i + 1])
                 /\ geometries' = IF result.k = "geometry"
                                  THEN Append(geometries, result) ELSE geometries
                 /\ UNCHANGED thrown
  /\ UNCHANGED <<call, ret, graph, cache, evaluated, visiting, result, history, log>>

\* ------------------------------------------------------------------ spec
Next ==
  \/ CallEvaluateGraph
  \/ CallGetNodeOutput
  \/ CallGetGeometryOutputs
  \/ clearCache
  \/ EvaluateGraphEnter
  \/ EvaluateGraphLoop
  \/ VisitEnter
  \/ VisitDeps
  \/ VisitExit
  \/ EvaluateNodeEnter
  \/ EvaluateNodeSource
  \/ EvaluateNodeRead
  \/ EvaluateNodeExecute
  \/ GetNodeOutputEvaluate
  \/ GetNodeOutputReturn
  \/ GetGeometryOutputsEnter
  \/ GetGeometryOutputsLoop
  \/ GetGeometryOutputsCollect

Spec == Init /\ [][Next]_vars

\* the single pass: evaluateGraph() called once on a new evaluator
PassCall == history = << >> /\ CallEvaluateGraph

NextPass ==
  \/ PassCall
  \/ EvaluateGraphEnter
  \/ EvaluateGraphLoop
  \/ VisitEnter
  \/ VisitDeps
  \/ VisitExit
  \/ EvaluateNodeEnter
  \/ EvaluateNodeSource
  \/ EvaluateNodeRead
  \/ EvaluateNodeExecute

SpecPass == InitPass /\ [][NextPass]_vars

\* the repeated pass: evaluateGraph() called again and again on one
\* evaluator, with nothing done to the graph in between
MaxRepeatNodes == 2

InitRepeat ==
  Constructed(GraphsOf(NodeKinds \cup SpineKinds, MaxRepeatNodes))
    /\ call = NoCall /\ ret = NoReturn

RepeatCall ==
  /\ CanCall
  /\ stack' = << Frame("evaluateGraph", 0, "") >>
  /\ history' = Append(history, [op |-> "evaluateGraph", node |-> 0])
  /\ thrown' = "none"
  /\ log' = [LogNewCall(log) EXCEPT !.previous = cache]
  /\ UNCHANGED <<call, ret, graph, cache, evaluated, visiting, result, geometries>>

NextRepeat ==
  \/ RepeatCall
  \/ EvaluateGraphEnter
  \/ EvaluateGraphLoop
  \/ VisitEnter
  \/ VisitDeps
  \/ VisitExit
  \/ EvaluateNodeEnter
  \/ EvaluateNodeSource
  \/ EvaluateNodeRead
  \/ EvaluateNodeExecute

SpecRepeat == InitRepeat /\ [][NextRepeat]_vars

TypeOK ==
  /\ DOMAIN cache \subseteq NodeIds
  /\ Len(stack) <= MaxStack
  /\ thrown \in {"none", "RangeError", "ReferenceError"}

\* ------------------------------------------------------ graph predicates
Edge(a, b) ==
  \E j \in 1..Len(graph.connections) :
    graph.connections[j].fromNodeId = a /\ graph.connections[j].toNodeId = b

RECURSIVE ReachIn(_, _, _)
\* a path of at most k connections leads from a to b
ReachIn(a, b, k) ==
  IF k = 0 THEN FALSE
  ELSE Edge(a, b) \/ \E c \in NodeIds : Edge(a, c) /\ ReachIn(c, b, k - 1)

Acyclic == \A a \in NodeIds : ~ReachIn(a, a, Cardinality(NodeIds))

Registered(n) == HasDefinition(FindNode(n).type)

\* the cycle A -> B -> A or a node connected to itself, of registered types
RegisteredCycle ==
  \E a, b \in NodeIds : Registered(a) /\ Registered(b) /\ Edge(a, b) /\ Edge(b, a)

\* the graph whose connections are exactly A -> B and B -> A
TwoNodeCycle ==
  /\ Len(graph.connections) = 2
  /\ \E a, b \in NodeIds : a # b /\ Edge(a, b) /\ Edge(b, a)

\* the last public call was op and it has ended, by return or by exception
Ended(op) ==
  /\ stack = << >>
  /\ history # << >>
  /\ history[Len(history)].op = op

Returned(op) == Ended(op) /\ thrown = "none"

InputPorts(n) ==
  { getNodeDefinition(FindNode(n).type).inputs[j].id :
      j \in 1..Len(getNodeDefinition(FindNode(n).type).inputs) }

\* connections that terminate at port p of node n, as indices in list order
Terminating(n, p) ==
  { j \in 1..Len(graph.connections) :
      graph.connections[j].toNodeId = n /\ graph.connections[j].toPortId = p }

\* the value connection j carries: the named output of its source
Carried(j) ==
  IF graph.connections[j].fromNodeId \in DOMAIN cache
  THEN Get(cache[graph.connections[j].fromNodeId], graph.connections[j].fromPortId)
  ELSE Undef

Max(S) == CHOOSE x \in S : \A y \in S : y <= x

\* ---------------------------------------------------------------- claims

\* C1: a graph with a dependency cycle among registered types (A -> B -> A or
\* a self-connection) is evaluated by evaluateGraph() with bounded recursion:
\* the call returns and no stack exhaustion leaves it.
C1_CycleEvaluationReturns == RegisteredCycle => thrown # "RangeError"

\* C2: in an acyclic graph no evaluateNode ever reads the outputs of a
\* connection's source while the cache holds no entry for that source.
C2_SourceCachedBeforeRead == Acyclic => log.uncached = {}

\* C3: however often getNodeOutput is called between two cache clears, each
\* node's execute is invoked at most once by those calls.
C3_ExecuteAtMostOncePerRead == \A n \in NodeIds : log.getExecs[n] <= 1

\* getNodeOutput was called twice for one node, which executed on the first call
C3_Witness ==
  /\ stack = << >>
  /\ Len(history) = 2
  /\ history[1].op = "getNodeOutput"
  /\ history[2] = history[1]
  /\ log.getExecs[history[1].node] = 1

C6_UnknownTypeCached ==
  Returned("evaluateGraph") =>
    \A n \in NodeIds : ~Registered(n) => (n \in DOMAIN cache /\ cache[n] = EmptyRecord)

\* C7: in one pass every node of an unregistered type is reported exactly once.
C7_UnknownReportedOnce ==
  Returned("evaluateGraph") => \A n \in NodeIds : ~Registered(n) => log.unknown[n] = 1

\* C8: a pass over the two-node cycle A -> B -> A reports the circular
\* dependency exactly once: never more during the pass, and once when it ends.
C8_OneCircularReport ==
  TwoNodeCycle =>
    /\ log.circular <= 1
    /\ Ended("evaluateGraph") => log.circular = 1

\* a pass over the two-node cycle has ended with its one report
C8_Witness == TwoNodeCycle /\ Ended("evaluateGraph") /\ log.circular = 1

\* C9: when two or more connections terminate at one input port that has no
\* override and a value reaches the port along them, execute receives the
\* value of the last of them in the list.
C9_LastConnectionWins ==
  \A n \in DOMAIN log.inputs : \A p \in InputPorts(n) :
    ( /\ Cardinality(Terminating(n, p)) >= 2
      /\ p \notin DOMAIN FindNode(n).inputValues
      /\ \E j \in Terminating(n, p) : graph.connections[j].fromNodeId \in DOMAIN cache )
      => log.inputs[n][p] = Carried(Max(Terminating(n, p)))

\* the nodes whose definition declares a geometry output, in list order
GeometryNodes ==
  { j \in 1..Len(graph.nodes) :
      /\ HasDefinition(graph.nodes[j].type)
      /\ HasGeometryOutput(getNodeDefinition(graph.nodes[j].type)) }

\* C10: getGeometryOutputs() returns exactly one mesh for every node whose
\* definition declares a geometry output.
C10_OneMeshPerGeometryNode ==
  Returned("getGeometryOutputs") => Len(geometries) = Cardinality(GeometryNodes)

\* the nodes of type spine
SpineNodes == { n \in NodeIds : FindNode(n).type = "spine" }

\* C16: when no spine node has used a non-zero radius variation, a second
\* evaluateGraph() pass over the same graph leaves in the cache, for every
\* node, the outputs the first pass left.
C16_RepeatedPassSameOutputs ==
  (Len(history) >= 2 /\ Ended("evaluateGraph") /\ log.varied = {}) =>
     cache = log.previous

\* a second pass has ended on a graph in which a number node feeds the
\* radius variation of a spine node, and the spine's radii are cached
C16_Witness ==
  /\ Len(history) = 2 /\ Ended("evaluateGraph") /\ log.varied = {}
  /\ \E n \in SpineNodes :
       /\ n \in DOMAIN cache /\ Len(cache[n].geometry.v) = SpineStepsValue
       /\ \E j \in 1..Len(graph.connections) :
            /\ graph.connections[j].toNodeId = n
            /\ FindNode(graph.connections[j].fromNodeId).type = "number"

\* ------------------------------------------------------- resamplePolygon
\* lines 114-121: edgeLengths[i] = sqrt(dx*dx + dy*dy) to the next point, cyclically
EdgeLengths(points) ==
  [i \in 1..Len(points) |->
     LET p == points[i]
         q == points[(i % Len(points)) + 1]
         dx == QSub(q.x, p.x)
         dy == QSub(q.y, p.y)
     IN QSqrt(QAdd(QMul(dx, dx), QMul(dy, dy)))]

RECURSIVE AdvanceEdge(_, _, _, _)
\* lines 137-143: advance to the edge that contains targetDistance;
\* returns the accumulated length and the (1-based) edge index
AdvanceEdge(edgeLengths, targetDistance, accumulatedLength, currentEdgeIndex) ==
  IF /\ currentEdgeIndex <= Len(edgeLengths)
     /\ QLt(QAdd(accumulatedLength, edgeLengths[currentEdgeIndex]), targetDistance)
  THEN AdvanceEdge(edgeLengths, targetDistance,
                   QAdd(accumulatedLength, edgeLengths[currentEdgeIndex]),
                   currentEdgeIndex + 1)
  ELSE [accumulatedLength |-> accumulatedLength, currentEdgeIndex |-> currentEdgeIndex]

\* lines 151-172: the point at targetDistance on the current edge
InterpolateOnEdge(points, edgeLengths, targetDistance, accumulatedLength, currentEdgeIndex) ==
  LET edgeLength == edgeLengths[currentEdgeIndex]
      raw == QDiv(QSub(targetDistance, accumulatedLength), edgeLength)
      t == IF edgeLength = QInt(0) THEN QInt(0)
           ELSE IF QLt(raw, QInt(0)) THEN QInt(0)
           ELSE IF QLt(QInt(1), raw) THEN QInt(1) ELSE raw
      p1 == points[currentEdgeIndex]
      p2 == points[(currentEdgeIndex % Len(points)) + 1]
  IN [x |-> QAdd(p1.x, QMul(t, QSub(p2.x, p1.x))),
      y |-> QAdd(p1.y, QMul(t, QSub(p2.y, p1.y)))]

RECURSIVE ResampleWalk(_, _, _, _, _, _, _, _)
\* lines 133-173: for (i = 0; i < targetVertexCount; i++), one point pushed
\* per iteration
ResampleWalk(points, edgeLengths, stepSize, targetVertexCount, i, accumulatedLength, currentEdgeIndex, resampled) ==
  IF i >= targetVertexCount THEN resampled
  ELSE LET targetDistance == QMul(QInt(i), stepSize)
           at == AdvanceEdge(edgeLengths, targetDistance, accumulatedLength,
                             currentEdgeIndex)
       IN ResampleWalk(points, edgeLengths, stepSize, targetVertexCount, i + 1,
                       at.accumulatedLength, at.currentEdgeIndex,
                       Append(resampled,
                              IF at.currentEdgeIndex > Len(points)
                              THEN points[Len(points)]
                              ELSE InterpolateOnEdge(points, edgeLengths, targetDistance,
                                                     at.accumulatedLength,
                                                     at.currentEdgeIndex)))

\* lines 106-108 and 123: an empty polygon, a polygon that already has the
\* target count and a polygon of zero perimeter are returned as they are
resamplePolygon(points, targetVertexCount) ==
  IF Len(points) = 0 THEN << >>
  ELSE IF Len(points) = targetVertexCount THEN points
  ELSE LET count == IF targetVertexCount < 3 THEN 3 ELSE targetVertexCount
           edgeLengths == EdgeLengths(points)
           totalPerimeter == QSum(edgeLengths)
       IN IF totalPerimeter = QInt(0) THEN points
          ELSE ResampleWalk(points, edgeLengths, QDiv(totalPerimeter, QInt(count)),
                            count, 0, QInt(0), 1, << >>)

\* ------------------------------------------------- generateCrossSections
\* the "removed" marker in a list of shapes
Null == [k |-> "null"]

\* InterpolatableShape {points}
Shape(points) == [k |-> "shape", points |-> points]

RECURSIVE FilterNull(_, _)
\* Array.prototype.filter(s => s !== null)
FilterNull(shapes, from) ==
  IF from > Len(shapes) THEN << >>
  ELSE IF shapes[from] # Null
       THEN << shapes[from] >> \o FilterNull(shapes, from + 1)
       ELSE FilterNull(shapes, from + 1)

\* a plausible slip: easeOut written as (1 - t)^3, without the leading 1 -
easingFunctionsFalling(type, t) ==
  CASE type = "easeOut" ->
         LET u == QSub(QInt(1), t) IN QMul(u, QMul(u, u))
    [] type = "easeInOut" ->
         IF QLt(t, Q(1, 2)) THEN QMul(QInt(2), QMul(t, t))
         ELSE LET u == QAdd(QMul(QInt(-2), t), QInt(2))
              IN QSub(QInt(1), QDiv(QMul(u, u), QInt(2)))
    [] OTHER -> t

\* part_009: the easing curves; "none" is an absent easing function
easingFunctions(type, t) ==
  CASE type = "linear" -> t
    [] type = "easeOut" ->
         LET u == QSub(QInt(1), t) IN QSub(QInt(1), QMul(u, QMul(u, u)))
    [] type = "easeInOut" ->
         IF QLt(t, Q(1, 2)) THEN QMul(QInt(2), QMul(t, t))
         ELSE LET u == QAdd(QMul(QInt(-2), t), QInt(2))
              IN QSub(QInt(1), QDiv(QMul(u, u), QInt(2)))
    [] OTHER -> t

\* calculateArea: shoelace formula, absolute value
calculateArea(points) ==
  IF Len(points) < 3 THEN QInt(0)
  ELSE LET terms == [i \in 1..Len(points) |->
                       LET p == points[i]
                           q == points[(i % Len(points)) + 1]
                       IN QSub(QMul(p.x, q.y), QMul(q.x, p.y))]
           area == QSum(terms)
       IN QDiv(IF QLt(area, QInt(0)) THEN QSub(QInt(0), area) ELSE area, QInt(2))

\* getMaxVertexCount: Math.max(...shapes.map(s => s.points.length), 0)
getMaxVertexCount(shapes) ==
  Max({ Len(shapes[j].points) : j \in 1..Len(shapes) } \cup {0})

\* CrossSection2D {outer, holes, t}
generateCrossSections(baseShapes, easing, normalizeVertexCount) ==
  LET validShapes == FilterNull(baseShapes, 1)
      processedShapes ==
        IF normalizeVertexCount
        THEN [j \in 1..Len(validShapes) |->
                Shape(resamplePolygon(validShapes[j].points,
                                      getMaxVertexCount(validShapes)))]
        ELSE validShapes
      n == Len(baseShapes)
      \* validShapeIndex when the loop is at entry i
      validShapeIndex(i) == Cardinality({ j \in 1..i : baseShapes[j] # Null })
      tAt(i) == LET t == IF n > 1 THEN Q(i - 1, n - 1) ELSE QInt(0)
                IN IF easing # "none" THEN easingFunctions(easing, t) ELSE t
  IN IF Len(baseShapes) = 0 THEN << >>
     ELSE IF Len(validShapes) = 0 THEN << >>
     ELSE [i \in 1..n |->
             IF baseShapes[i] = Null
             THEN [outer |-> << >>, holes |-> << >>, t |-> tAt(i)]
             ELSE [outer |-> processedShapes[validShapeIndex(i)].points,
                   holes |-> << >>, t |-> tAt(i)]]

\* ----------------------------------------------------- generatePattern2D
\* a plausible slip: the rotation is stored in degrees, unconverted
ToRadiansDropped(degrees) == degrees

\* (degrees * Math.PI) / 180; an angle in radians is kept as its multiple of pi
ToRadians(degrees) == QDiv(degrees, QInt(180))

\* Math.cos and Math.sin of a whole number of quarter turns, in degrees
CosDeg(d) == CASE d % 360 = 0 -> 1 [] d % 360 = 180 -> -1 [] OTHER -> 0
SinDeg(d) == CASE d % 360 = 90 -> 1 [] d % 360 = 270 -> -1 [] OTHER -> 0

RECURSIVE PatternLoop(_, _, _, _)
\* lines 66-95: emit the instance at the current state, then advance.  The
\* drift (distance, angle) turned by the spiral angle is, by the addition
\* formulas, driftX cos s - driftY sin s and driftX sin s + driftY cos s.
PatternLoop(params, i, cur, instances) ==
  IF i >= params.steps THEN instances
  ELSE LET newDriftX == QSub(QMul(params.driftX, QInt(CosDeg(cur.spiralAngle))),
                             QMul(params.driftY, QInt(SinDeg(cur.spiralAngle))))
           newDriftY == QAdd(QMul(params.driftX, QInt(SinDeg(cur.spiralAngle))),
                             QMul(params.driftY, QInt(CosDeg(cur.spiralAngle))))
       IN PatternLoop(params, i + 1,
            [currentX |-> QAdd(cur.currentX, newDriftX),
             currentY |-> QAdd(cur.currentY, newDriftY),
             currentRotation |-> QAdd(cur.currentRotation, params.rotationStep),
             currentScale |-> QMul(cur.currentScale, params.scaleFactor),
             spiralAngle |-> cur.spiralAngle + params.spiralAmount],
            Append(instances,
                   [center |-> [x |-> cur.currentX, y |-> cur.currentY],
                    rotation |-> ToRadians(cur.currentRotation),
                    scale |-> cur.currentScale]))

\* generatePattern2D(params): the instances, of which center, rotation and
\* scale are kept (shape, size, starPoints, crossThickness are copied through)
PatternInstances(params) ==
  PatternLoop(params, 0,
              [currentX |-> QInt(0), currentY |-> QInt(0),
               currentRotation |-> params.rotationStart,
               currentScale |-> params.scaleStart, spiralAngle |-> 0],
              << >>)

\* ---------------------------------------------- defaultHoleShapeGenerator
\* the vertex centroid {x: sumX / length, y: sumY / length}
Centroid(points) ==
  [x |-> QDiv(QSum([j \in 1..Len(points) |-> points[j].x]), QInt(Len(points))),
   y |-> QDiv(QSum([j \in 1..Len(points) |-> points[j].y]), QInt(Len(points)))]

\* points.map(p => center + (p - center) * scale)
ScaleAbout(points, center, scale) ==
  [j \in 1..Len(points) |->
     [x |-> QAdd(center.x, QMul(QSub(points[j].x, center.x), scale)),
      y |-> QAdd(center.y, QMul(QSub(points[j].y, center.y), scale))]]

\* a plausible slip: the two ends of the interpolation are exchanged
HoleScaleFactorReversed(t) == QAdd(Q(25, 100), QMul(Q(15, 100), t))

\* const scaleFactor = 0.40 - 0.15 * t
HoleScaleFactor(t) == QSub(Q(40, 100), QMul(Q(15, 100), t))

defaultHoleShapeGenerator(outer, t) ==
  IF Len(outer) = 0 THEN << >>
  ELSE ScaleAbout(outer, Centroid(outer), HoleScaleFactor(t))

\* --------------------------------------------------- addAlternatingHoles
\* the predicate  index % frequency === 0  (the default pattern has
\* frequency 2); index % 0 is NaN
holePattern(frequency, index) == frequency # 0 /\ index % frequency = 0

\* a plausible slip: the new hole put before the existing ones
WithHoleFirst(section, holePolygon) ==
  [section EXCEPT !.holes = << holePolygon >> \o section.holes]

\* lines 81-84: { ...section, holes: [...section.holes, holePolygon] }
WithHole(section, holePolygon) ==
  [section EXCEPT !.holes = section.holes \o << holePolygon >>]

\* addAlternatingHoles with the default hole shape generator; sections.map
\* builds a new array and new section objects, the arguments are only read
addAlternatingHoles(sections, frequency) ==
  [i \in 1..Len(sections) |->
     IF holePattern(frequency, i - 1)
     THEN WithHole(sections[i],
                   defaultHoleShapeGenerator(sections[i].outer, sections[i].t))
     ELSE sections[i]]

\* ------------------------------------------------------ node definitions
\* patternInstancesToInterpolatableShapes: the instances at even (0-based)
\* indices, null where removeShapes is on and i % removeFrequency = 0.  An
\* instance is given by the polygon generateShapeVerticesForFill draws for it.
patternInstancesToInterpolatableShapes(instances, removeShapes, removeFrequency) ==
  LET blackShapes == [i \in 1..((Len(instances) + 1) \div 2) |-> instances[2 * i - 1]]
  IN [i \in 1..Len(blackShapes) |->
        IF removeShapes /\ (i - 1) % removeFrequency = 0
        THEN Null
        ELSE Shape(blackShapes[i].fill)]

\* CrossSectionsNode.execute on an array of shapes; getEasingFunction(easing)
\* is easingFunctions[easing]
CrossSectionsNode(shapes, normalize, easing) ==
  generateCrossSections(FilterNull(shapes, 1), easing, normalize)

\* --------------------------------------------------- loftCrossSections3D
\* rotatePoint2D by a whole number of quarter turns, in degrees
rotatePoint2D(point, degrees) ==
  [x |-> QSub(QMul(point.x, QInt(CosDeg(degrees))), QMul(point.y, QInt(SinDeg(degrees)))),
   y |-> QAdd(QMul(point.x, QInt(SinDeg(degrees))), QMul(point.y, QInt(CosDeg(degrees))))]

\* processPolygon: the THREE.Vector3 (x, y, z) of every point of a polygon.
\* Each vertex also carries where it came from (section, slot 0 for the outer
\* polygon and h for hole h, index in the polygon); the code does not store
\* this, it is kept to tell the vertices of different sections apart.
processPolygon(points, t, totalHeight, twistAmount, taperAmount, section, slot) ==
  IF Len(points) = 0 THEN << >>
  ELSE LET tapered == IF taperAmount # QInt(0)
                      THEN ScaleAbout(points, Centroid(points),
                                      QSub(QInt(1), QMul(taperAmount, t)))
                      ELSE points
           twisted == IF twistAmount # QInt(0)
                      THEN [j \in 1..Len(tapered) |->
                              rotatePoint2D(tapered[j], QMul(twistAmount, t)[1])]
                      ELSE tapered
       IN [j \in 1..Len(twisted) |->
             [x |-> twisted[j].x, y |-> QMul(t, totalHeight), z |-> twisted[j].y,
              section |-> section, slot |-> slot, index |-> j]]

\* a quad whose next vertex is the vertex itself
QuadIndicesCollapsed(vertexOffset, vertexCount, i) ==
  << vertexOffset + i, vertexOffset + vertexCount + i, vertexOffset + i,
     vertexOffset + vertexCount + i, vertexOffset + vertexCount + i,
     vertexOffset + i >>

\* the six indices pushed for vertex i (0-based) of a ring of vertexCount
QuadIndices(vertexOffset, vertexCount, i) ==
  LET nextI == (i + 1) % vertexCount
  IN << vertexOffset + i, vertexOffset + vertexCount + i, vertexOffset + nextI,
        vertexOffset + vertexCount + i, vertexOffset + vertexCount + nextI,
        vertexOffset + nextI >>

\* a plausible slip: the hole wall wound like the body wall
UnreversedQuadIndices(vertexOffset, vertexCount, j) ==
  LET nextJ == (j + 1) % vertexCount
  IN << vertexOffset + j, vertexOffset + vertexCount + j, vertexOffset + nextJ,
        vertexOffset + vertexCount + j, vertexOffset + vertexCount + nextJ,
        vertexOffset + nextJ >>

\* lines 283-299: the same quad with the winding reversed, for hole walls
ReversedQuadIndices(vertexOffset, vertexCount, j) ==
  LET nextJ == (j + 1) % vertexCount
  IN << vertexOffset + j, vertexOffset + nextJ, vertexOffset + vertexCount + j,
        vertexOffset + vertexCount + j, vertexOffset + nextJ,
        vertexOffset + vertexCount + nextJ >>

\* triangulateQuad(bottomVertices, topVertices, vertexOffset)
triangulateQuad(bottomVertices, topVertices, vertexOffset) ==
  [k \in 1..(6 * Len(bottomVertices)) |->
     QuadIndices(vertexOffset, Len(bottomVertices), (k - 1) \div 6)[((k - 1) % 6) + 1]]

RECURSIVE LoftBody(_, _, _)
\* lines 220-249: the wall between each pair of adjacent outer polygons
LoftBody(outers, i, mesh) ==
  IF i > Len(outers) - 1 THEN mesh
  ELSE LET bottomOuter == outers[i]
           topOuter == outers[i + 1]
       IN IF Len(bottomOuter) = 0 \/ Len(topOuter) = 0
          THEN LoftBody(outers, i + 1, mesh)
          ELSE LoftBody(outers, i + 1,
                 [vertices |-> mesh.vertices \o bottomOuter \o topOuter,
                  indices |->
                    IF Len(bottomOuter) = Len(topOuter)
                    THEN mesh.indices \o
                         triangulateQuad(bottomOuter, topOuter, Len(mesh.vertices))
                    ELSE mesh.indices])

RECURSIVE CollectHoleInPlace(_, _, _)
\* a plausible alternative: a section without the slot keeps its place in the
\* list, as an empty polygon
CollectHoleInPlace(processedHoleSections, holeIndex, sectionIndex) ==
  IF sectionIndex > Len(processedHoleSections) THEN << >>
  ELSE IF holeIndex <= Len(processedHoleSections[sectionIndex])
       THEN << processedHoleSections[sectionIndex][holeIndex] >> \o
            CollectHoleInPlace(processedHoleSections, holeIndex, sectionIndex + 1)
       ELSE << << >> >> \o
            CollectHoleInPlace(processedHoleSections, holeIndex, sectionIndex + 1)

RECURSIVE CollectHole(_, _, _)
\* lines 260-266: hole holeIndex of every section that has one, in order
CollectHole(processedHoleSections, holeIndex, sectionIndex) ==
  IF sectionIndex > Len(processedHoleSections) THEN << >>
  ELSE IF holeIndex <= Len(processedHoleSections[sectionIndex])
       THEN << processedHoleSections[sectionIndex][holeIndex] >> \o
            CollectHole(processedHoleSections, holeIndex, sectionIndex + 1)
       ELSE CollectHole(processedHoleSections, holeIndex, sectionIndex + 1)

RECURSIVE LoftHole(_, _, _)
\* lines 269-301: the tube between each pair of consecutive collected holes
LoftHole(holeSections, i, mesh) ==
  IF i > Len(holeSections) - 1 THEN mesh
  ELSE LET bottomHole == holeSections[i]
           topHole == holeSections[i + 1]
           vertexCount == Len(bottomHole)
       IN LoftHole(holeSections, i + 1,
            [vertices |-> mesh.vertices \o bottomHole \o topHole,
             indices |->
               IF Len(bottomHole) = Len(topHole) /\ Len(bottomHole) > 0
               THEN mesh.indices \o
                    [k \in 1..(6 * vertexCount) |->
                       ReversedQuadIndices(Len(mesh.vertices), vertexCount,
                                           (k - 1) \div 6)[((k - 1) % 6) + 1]]
               ELSE mesh.indices])

RECURSIVE LoftHoles(_, _, _, _)
\* lines 258-304: for (holeIndex = 0; holeIndex < maxHoles; holeIndex++)
LoftHoles(processedHoleSections, holeIndex, maxHoles, mesh) ==
  IF holeIndex > maxHoles THEN mesh
  ELSE LoftHoles(processedHoleSections, holeIndex + 1, maxHoles,
                 LoftHole(CollectHole(processedHoleSections, holeIndex, 1), 1, mesh))

\* loftCrossSections3D(options): the vertices and the index list of the
\* returned BufferGeometry
loftCrossSections3D(sections, totalHeight, twistAmount, taperAmount) ==
  LET processedOuterSections ==
        [s \in 1..Len(sections) |->
           processPolygon(sections[s].outer, sections[s].t, totalHeight,
                          twistAmount, taperAmount, s, 0)]
      processedHoleSections ==
        [s \in 1..Len(sections) |->
           [h \in 1..Len(sections[s].holes) |->
              processPolygon(sections[s].holes[h], sections[s].t, totalHeight,
                             twistAmount, taperAmount, s, h)]]
      maxHoles == Max({ Len(processedHoleSections[s]) : s \in 1..Len(sections) } \cup {0})
  IN IF Len(sections) = 0 THEN [vertices |-> << >>, indices |-> << >>]
     ELSE LoftHoles(processedHoleSections, 1, maxHoles,
                    LoftBody(processedOuterSections, 1,
                             [vertices |-> << >>, indices |-> << >>]))

\* ------------------------------------------- loft3D.ts (tip closing) loft
\* calculatePolygonArea: the area of a ring of vertices projected on the XZ
\* plane
calculatePolygonArea(vertices) ==
  calculateArea([j \in 1..Len(vertices) |-> [x |-> vertices[j].x, y |-> vertices[j].z]])

\* createTipCap(vertices, vertexOffset): a fan around a new centre vertex,
\* the average of the ring
createTipCap(vertices, vertexOffset) ==
  LET vertexCount == Len(vertices)
      centerIndex == vertexOffset + vertexCount
      Fan(i) == << centerIndex, vertexOffset + i, vertexOffset + ((i + 1) % vertexCount) >>
  IN [indices |-> [k \in 1..(3 * vertexCount) |-> Fan((k - 1) \div 3)[((k - 1) % 3) + 1]],
      centerVertex |->
        [x |-> QDiv(QSum([j \in 1..vertexCount |-> vertices[j].x]), QInt(vertexCount)),
         y |-> QDiv(QSum([j \in 1..vertexCount |-> vertices[j].y]), QInt(vertexCount)),
         z |-> QDiv(QSum([j \in 1..vertexCount |-> vertices[j].z]), QInt(vertexCount)),
         section |-> vertices[1].section, slot |-> 0, index |-> 0]]

RECURSIVE LegacyLoftBody(_, _, _)
\* loft3D.ts lines 181-206: both rings of every adjacent pair are pushed,
\* and triangulated when they have the same length
LegacyLoftBody(processedSections, i, mesh) ==
  IF i > Len(processedSections) - 1 THEN mesh
  ELSE LET bottomSection == processedSections[i]
           topSection == processedSections[i + 1]
       IN LegacyLoftBody(processedSections, i + 1,
            [vertices |-> mesh.vertices \o bottomSection \o topSection,
             indices |->
               IF Len(bottomSection) = Len(topSection)
               THEN mesh.indices \o
                    triangulateQuad(bottomSection, topSection, Len(mesh.vertices))
               ELSE mesh.indices])

\* loft3D.ts loftCrossSections3D(options), a section being {points, t}
legacyLoftCrossSections3D(sections, totalHeight, twistAmount, taperAmount) ==
  LET processedSections ==
        [s \in 1..Len(sections) |->
           processPolygon(sections[s].points, sections[s].t, totalHeight,
                          twistAmount, taperAmount, s, 0)]
      body == LegacyLoftBody(processedSections, 1, [vertices |-> << >>, indices |-> << >>])
      lastSection == processedSections[Len(processedSections)]
      shouldCloseTip == QLt(calculatePolygonArea(lastSection), Q(1, 1000))
      tipCap == createTipCap(lastSection, Len(body.vertices) - Len(lastSection))
  IN IF Len(sections) = 0 THEN [vertices |-> << >>, indices |-> << >>]
     ELSE IF shouldCloseTip /\ Len(lastSection) > 0
          THEN [vertices |-> Append(body.vertices, tipCap.centerVertex),
                indices |-> body.indices \o tipCap.indices]
          ELSE body

\* --------------------------------------------------- createSpineGeometry
RECURSIVE SpineLoft(_, _, _)
\* shellFactory.ts lines 357-384: the wall between each pair of adjacent rings
SpineLoft(rings, i, mesh) ==
  IF i > Len(rings) - 1 THEN mesh
  ELSE SpineLoft(rings, i + 1,
         [vertices |-> mesh.vertices \o rings[i] \o rings[i + 1],
          indices |-> mesh.indices \o
                      [k \in 1..(6 * Segments) |->
                         QuadIndices(Len(mesh.vertices), Segments,
                                     (k - 1) \div 6)[((k - 1) % 6) + 1]]])

\* createSpineGeometry(points): a vertex of a ring is kept as the ring it is
\* on, its place on the ring and the radius of the ring
createSpineGeometry(points) ==
  LET rings == [p \in 1..Len(points) |->
                  [i \in 1..Segments |-> [section |-> p, index |-> i, radius |-> points[p]]]]
  IN IF Len(points) = 0 THEN [vertices |-> << >>, indices |-> << >>]
     ELSE SpineLoft(rings, 1, [vertices |-> << >>, indices |-> << >>])

\* ------------------------------------------------------ geometry inputs
MaxTarget == 6   \* largest target vertex count asked of resamplePolygon
MaxShapes == 3   \* entries in a list of shapes
MaxSteps == 3    \* steps of a pattern
MaxSections == 3 \* cross-sections handed to the loft
MaxInstances == 5 \* pattern instances handed to patternToShapes
MaxFrequency == 3 \* largest period of a hole pattern
MaxSpineSteps == 6 \* steps of a spine
MaxEased == 6    \* entries in a list of shapes whose heights are eased

\* the square of half-size h around the origin, counter-clockwise
Square(h) == << Point(-h, -h), Point(h, -h), Point(h, h), Point(-h, h) >>

\* the same outline with the midpoints of two sides as vertices
Rect6(h) ==
  << Point(-h, -h), Point(0, -h), Point(h, -h), Point(h, h), Point(0, h), Point(-h, h) >>

\* n points that all coincide
Collapsed(n) == [i \in 1..n |-> Point(1, 1)]

Polygons ==
  { Square(10), Square(5), Rect6(4), << Point(0, 0), Point(3, 0) >>,
    Collapsed(1), Collapsed(3) }

ShapeLists == SeqsUpTo({ Shape(poly) : poly \in Polygons \ {Collapsed(1)} } \cup {Null}, MaxShapes)

ResampleCalls ==
  { [fn |-> "resamplePolygon", points |-> poly, targetVertexCount |-> k] :
      poly \in Polygons, k \in 0..MaxTarget }

CrossSectionCalls ==
  { [fn |-> "generateCrossSections", baseShapes |-> shapes, easing |-> e,
     normalizeVertexCount |-> nv] :
      shapes \in ShapeLists, e \in {"none", "easeOut"}, nv \in BOOLEAN }

\* longer lists of one shape, under each easing
EasedCalls ==
  { [fn |-> "generateCrossSections",
     baseShapes |-> [i \in 1..n |-> Shape(Square(5))], easing |-> e,
     normalizeVertexCount |-> FALSE] :
      n \in 0..MaxEased, e \in {"none", "linear", "easeOut", "easeInOut"} }

\* sections {points, t} at the heights 0, 1/(n-1), ..., 1
LegacyLoftCalls ==
  { [fn |-> "legacyLoftCrossSections3D",
     sections |-> [i \in 1..Len(ps) |->
                     [points |-> ps[i],
                      t |-> IF Len(ps) > 1 THEN Q(i - 1, Len(ps) - 1) ELSE QInt(0)]],
     totalHeight |-> QInt(200), twistAmount |-> QInt(tw), taperAmount |-> tp] :
      ps \in SeqsUpTo({<< >>, Square(10), Rect6(4), Collapsed(3)}, MaxSections),
      tw \in {0, 1080}, tp \in {QInt(0), Q(1, 2)} }

\* the points of a spine of n steps, none removed and none perturbed
SpineGeometryCalls ==
  { [fn |-> "createSpineGeometry",
     points |-> generateSpinePoints(n, Num(0), 0, << >>)] : n \in 0..MaxSpineSteps }

\* the values a port can carry
PortValues ==
  { Undef, Num(0), Num(OverrideValue), Bool(FALSE), Bool(TRUE), Str("linear"),
    Pattern(0), Pattern(MaxSteps), Shapes(0), Shapes(MaxShapes),
    Sections(0), Sections(MaxSections), Geometry(0) }

\* execute of every registered type, on the default inputs with one port
\* carrying any value; a spine has SpineStepsValue steps
ExecuteCalls ==
  { [fn |-> "execute", type |-> t,
     inputs |-> Put(IF t = "spine"
                    THEN Put(DefaultInputs(nodeDefinitions[t]), "steps", Num(SpineStepsValue))
                    ELSE DefaultInputs(nodeDefinitions[t]),
                    nodeDefinitions[t].inputs[j].id, x)] :
      <<t, j, x>> \in { y \in (DOMAIN nodeDefinitions) \X (1..3) \X PortValues :
                         /\ y[2] <= Len(nodeDefinitions[y[1]].inputs)
                         /\ ~(y[1] = "spine" /\ nodeDefinitions[y[1]].inputs[y[2]].id = "steps") } }

SpineCalls ==
  { [fn |-> "generateSpinePoints", steps |-> n, radiusVariation |-> Num(rv),
     removeFrequency |-> r] :
      n \in 0..MaxSpineSteps, rv \in {0, 1}, r \in 0..MaxFrequency }

PatternCalls ==
  { [fn |-> "generatePattern2D",
     params |-> [steps |-> n, scaleStart |-> QInt(ss), scaleFactor |-> sf,
                 rotationStart |-> QInt(r0), rotationStep |-> QInt(dr),
                 driftX |-> QInt(dx), driftY |-> QInt(dy), spiralAmount |-> sp]] :
      n \in 0..MaxSteps, ss \in {1, 2}, sf \in {QInt(1), Q(1, 2)}, r0 \in {0, 45},
      dr \in {0, 90}, dx \in {0, 10}, dy \in {0, 5}, sp \in {0, 90} }

\* values of the height parameter t
Heights == { QInt(0), Q(1, 2), Q(7, 8), QInt(1) }

HoleCalls ==
  { [fn |-> "defaultHoleShapeGenerator", outer |-> poly, t |-> t] :
      poly \in Polygons \cup {<< >>}, t \in Heights }

\* a section at each of the heights 0, 1/(n-1), ..., 1; a section with a hole
\* has the one addAlternatingHoles gives it
SectionAt(outer, holed, t) ==
  [outer |-> outer, t |-> t,
   holes |-> IF holed THEN << defaultHoleShapeGenerator(outer, t) >> ELSE << >>]

SectionLists ==
  { [i \in 1..Len(parts) |->
       SectionAt(parts[i].outer, parts[i].holed,
                 IF Len(parts) > 1 THEN Q(i - 1, Len(parts) - 1) ELSE QInt(0))] :
      parts \in SeqsUpTo([outer : {<< >>, Square(10), Rect6(4)}, holed : BOOLEAN],
                         MaxSections) }

\* the twist is such that every section turns by whole quarter turns
LoftCalls ==
  { [fn |-> "loftCrossSections3D", sections |-> ss, totalHeight |-> QInt(200),
     twistAmount |-> QInt(tw), taperAmount |-> tp] :
      ss \in SectionLists, tw \in {0, 1080}, tp \in {QInt(0), Q(1, 2)} }

\* sections of which some already have a hole, a small square
AddHolesCalls ==
  { [fn |-> "addAlternatingHoles",
     sections |-> [i \in 1..Len(ss) |->
                     [ss[i] EXCEPT !.holes = IF @ = << >> THEN << >> ELSE << Square(1) >>]],
     frequency |-> f] :
      ss \in SectionLists, f \in 1..MaxFrequency }

\* the shapes a patternToShapes node hands to a crossSections node
NodeCalls ==
  { [fn |-> "CrossSectionsNode",
     shapes |-> patternInstancesToInterpolatableShapes(instances, rs, rf),
     normalize |-> nv, easing |-> e] :
      instances \in SeqsUpTo({ [fill |-> Square(10)], [fill |-> Rect6(4)] }, MaxInstances),
      rs \in BOOLEAN, rf \in {2, 3}, nv \in BOOLEAN, e \in {"linear", "easeOut"} }

GeometryCalls ==
  ResampleCalls \cup CrossSectionCalls \cup PatternCalls \cup HoleCalls \cup LoftCalls
    \cup NodeCalls \cup AddHolesCalls \cup EasedCalls
    \cup SpineCalls \cup LegacyLoftCalls \cup SpineGeometryCalls \cup ExecuteCalls

\* ------------------------------------------------------- geometry spec
\* A geometry function is called directly with arguments from the sets
\* above (the legacy parameter panels and the node executes both call them
\* this way); no evaluator is involved.
EmptyGraph == [nodes |-> << >>, connections |-> << >>]

InitGeometry == Constructed({EmptyGraph}) /\ call \in GeometryCalls /\ ret = NoReturn

evaluatorVars ==
  <<graph, cache, stack, evaluated, visiting, thrown, result, geometries, history, log>>

\* the value a called function returned
Value(v) == [k |-> "returned", v |-> v]

ResamplePolygon ==
  /\ call.fn = "resamplePolygon" /\ ret = NoReturn
  /\ ret' = Value(resamplePolygon(call.points, call.targetVertexCount))
  /\ UNCHANGED <<call, evaluatorVars>>

GenerateCrossSections ==
  /\ call.fn = "generateCrossSections" /\ ret = NoReturn
  /\ ret' = Value(generateCrossSections(call.baseShapes, call.easing,
                                        call.normalizeVertexCount))
  /\ UNCHANGED <<call, evaluatorVars>>

GeneratePattern2D ==
  /\ call.fn = "generatePattern2D" /\ ret = NoReturn
  /\ ret' = Value(PatternInstances(call.params))
  /\ UNCHANGED <<call, evaluatorVars>>

DefaultHoleShapeGenerator ==
  /\ call.fn = "defaultHoleShapeGenerator" /\ ret = NoReturn
  /\ ret' = Value(defaultHoleShapeGenerator(call.outer, call.t))
  /\ UNCHANGED <<call, evaluatorVars>>

LoftCrossSections3D ==
  /\ call.fn = "loftCrossSections3D" /\ ret = NoReturn
  /\ ret' = Value(loftCrossSections3D(call.sections, call.totalHeight,
                                      call.twistAmount, call.taperAmount))
  /\ UNCHANGED <<call, evaluatorVars>>

ExecuteCrossSectionsNode ==
  /\ call.fn = "CrossSectionsNode" /\ ret = NoReturn
  /\ ret' = Value(CrossSectionsNode(call.shapes, call.normalize, call.easing))
  /\ UNCHANGED <<call, evaluatorVars>>

AddAlternatingHoles ==
  /\ call.fn = "addAlternatingHoles" /\ ret = NoReturn
  /\ ret' = Value(addAlternatingHoles(call.sections, call.frequency))
  /\ UNCHANGED <<call, evaluatorVars>>

GenerateSpinePoints ==
  /\ call.fn = "generateSpinePoints" /\ ret = NoReturn
  /\ \E randoms \in [1..call.steps -> MathRandom] :
       ret' = Value(generateSpinePoints(call.steps, call.radiusVariation,
                                        call.removeFrequency, randoms))
  /\ UNCHANGED <<call, evaluatorVars>>

LegacyLoftCrossSections3D ==
  /\ call.fn = "legacyLoftCrossSections3D" /\ ret = NoReturn
  /\ ret' = Value(legacyLoftCrossSections3D(call.sections, call.totalHeight,
                                            call.twistAmount, call.taperAmount))
  /\ UNCHANGED <<call, evaluatorVars>>

CreateSpineGeometry ==
  /\ call.fn = "createSpineGeometry" /\ ret = NoReturn
  /\ ret' = Value(createSpineGeometry(call.points))
  /\ UNCHANGED <<call, evaluatorVars>>

DefinitionExecute ==
  /\ call.fn = "execute" /\ ret = NoReturn
  /\ \E randoms \in RandomDraws(call.type, call.inputs) :
       ret' = Value(Execute(call.type, call.inputs, randoms))
  /\ UNCHANGED <<call, evaluatorVars>>

NextGeometry ==
  \/ ResamplePolygon
  \/ GenerateCrossSections
  \/ GeneratePattern2D
  \/ DefaultHoleShapeGenerator
  \/ LoftCrossSections3D
  \/ ExecuteCrossSectionsNode
  \/ AddAlternatingHoles
  \/ GenerateSpinePoints
  \/ LegacyLoftCrossSections3D
  \/ CreateSpineGeometry
  \/ DefinitionExecute

SpecGeometry == InitGeometry /\ [][NextGeometry]_vars

\* the called function was fn and it has returned
ReturnedFrom(fn) == call.fn = fn /\ ret # NoReturn

\* ------------------------------------------------------ geometry claims

\* C12: resamplePolygon(polygon, k) returns exactly max(k, 3) points for
\* every polygon of at least one point and every k.
C12_ResampleCountExact ==
  (ReturnedFrom("resamplePolygon") /\ Len(call.points) >= 1) =>
    Len(ret.v) = Max({call.targetVertexCount, 3})

NoRemoved(shapes) == \A j \in 1..Len(shapes) : shapes[j] # Null

\* C13: cross-sections built from a list of shapes with pairwise distinct
\* areas and no removed marker come out in order of non-increasing area.
C13_AreaSorted ==
  ( /\ ReturnedFrom("generateCrossSections")
    /\ NoRemoved(call.baseShapes)
    /\ \A i, j \in 1..Len(call.baseShapes) :
         i # j => calculateArea(call.baseShapes[i].points) #
                  calculateArea(call.baseShapes[j].points) )
  => \A i \in 1..(Len(ret.v) - 1) :
       QLe(calculateArea(ret.v[i + 1].outer), calculateArea(ret.v[i].outer))

\* C18: generateCrossSections returns, for n >= 1 entries, n sections in
\* input order; section i has an empty outer and no holes exactly when entry
\* i is a removed marker, and t_i = easing((i-1)/(n-1)), 0 when n = 1.
C18_OrderPreserved ==
  (ReturnedFrom("generateCrossSections") /\ Len(call.baseShapes) >= 1) =>
    LET n == Len(call.baseShapes)
        linear(i) == IF n > 1 THEN Q(i - 1, n - 1) ELSE QInt(0)
    IN /\ Len(ret.v) = n
       /\ \A i \in 1..n :
            /\ (ret.v[i].outer = << >>) <=> (call.baseShapes[i] = Null)
            /\ ret.v[i].holes = << >>
            /\ (call.baseShapes[i] # Null /\ ~call.normalizeVertexCount) =>
                  ret.v[i].outer = call.baseShapes[i].points
            /\ ret.v[i].t = IF call.easing = "none" THEN linear(i)
                            ELSE easingFunctions(call.easing, linear(i))

\* C20: with normalizeVertexCount set every non-empty outer of the output
\* has the maximum vertex count of the retained input polygons.
C20_NormalizedCount ==
  (ReturnedFrom("generateCrossSections") /\ call.normalizeVertexCount) =>
    \A i \in 1..Len(ret.v) :
      ret.v[i].outer # << >> =>
        Len(ret.v[i].outer) =
          Max({ Len(call.baseShapes[j].points) :
                  j \in { h \in 1..Len(call.baseShapes) : call.baseShapes[h] # Null } })

RECURSIVE QPow(_, _)
QPow(a, n) == IF n = 0 THEN QInt(1) ELSE QMul(a, QPow(a, n - 1))

\* the pattern of the example: steps 3, driftX 10, driftY 0, rotationStep 90
ExamplePattern ==
  [steps |-> 3, scaleStart |-> QInt(1), scaleFactor |-> QInt(1),
   rotationStart |-> QInt(0), rotationStep |-> QInt(90),
   driftX |-> QInt(10), driftY |-> QInt(0), spiralAmount |-> 0]

\* C14: with spiralAmount = 0 instance i (0-based) has center (i driftX,
\* i driftY), rotation (rotationStart + i rotationStep) degrees in radians and
\* scale scaleStart scaleFactor^i; the example pattern has centers (0,0),
\* (10,0), (20,0) and rotations 0, pi/2, pi.
C14_PatternInstances ==
  (ReturnedFrom("generatePattern2D") /\ call.params.spiralAmount = 0) =>
    LET pp == call.params IN
    /\ Len(ret.v) = pp.steps
    /\ \A j \in 1..Len(ret.v) :
         /\ ret.v[j].center = [x |-> QMul(QInt(j - 1), pp.driftX),
                               y |-> QMul(QInt(j - 1), pp.driftY)]
         /\ ret.v[j].rotation =
              QDiv(QAdd(pp.rotationStart, QMul(QInt(j - 1), pp.rotationStep)), QInt(180))
         /\ ret.v[j].scale = QMul(pp.scaleStart, QPow(pp.scaleFactor, j - 1))
    /\ pp = ExamplePattern =>
         /\ [j \in 1..3 |-> ret.v[j].center] = << Point(0, 0), Point(10, 0), Point(20, 0) >>
         /\ [j \in 1..3 |-> ret.v[j].rotation] = << QInt(0), Q(1, 2), QInt(1) >>

\* the example pattern has been generated
C14_Witness == ReturnedFrom("generatePattern2D") /\ call.params = ExamplePattern

\* C15: the default hole has the vertex count of the outer boundary, each
\* vertex at 0.40 - 0.15 t of its offset from the outer's vertex centroid
\* (0.40 at t = 0, 0.25 at t = 1); for the square of half-size 10 at t = 0
\* the centre is unchanged and the corners are at +-4 from it.
C15_DefaultHole ==
  ReturnedFrom("defaultHoleShapeGenerator") =>
    /\ Len(ret.v) = Len(call.outer)
    /\ call.outer # << >> =>
         LET c == Centroid(call.outer)
             f == IF call.t = QInt(0) THEN Q(2, 5)
                  ELSE IF call.t = QInt(1) THEN Q(1, 4)
                  ELSE QSub(Q(2, 5), QMul(Q(3, 20), call.t))
         IN /\ Centroid(ret.v) = c
            /\ \A j \in 1..Len(ret.v) :
                 /\ QSub(ret.v[j].x, c.x) = QMul(f, QSub(call.outer[j].x, c.x))
                 /\ QSub(ret.v[j].y, c.y) = QMul(f, QSub(call.outer[j].y, c.y))
    /\ (call.outer = Square(10) /\ call.t = QInt(0)) => ret.v = Square(4)

\* the hole of the square of half-size 10 at t = 0 has been generated
C15_Witness ==
  /\ ReturnedFrom("defaultHoleShapeGenerator")
  /\ call.outer = Square(10) /\ call.t = QInt(0)
  /\ ret.v = Square(4)

\* the triangles of a mesh, each the three vertices its indices point at
MeshTriangles(mesh) ==
  [k \in 1..(Len(mesh.indices) \div 3) |->
     [j \in 1..3 |-> mesh.vertices[mesh.indices[3 * (k - 1) + j] + 1]]]

\* C11: when cross-section i has an empty outer, the mesh that
\* loftCrossSections3D returns has no triangle, of the body wall or of a hole
\* wall, with a vertex of section i-1 and a vertex of section i+1.
C11_LoftGap ==
  ReturnedFrom("loftCrossSections3D") =>
    \A i \in 2..(Len(call.sections) - 1) :
      Len(call.sections[i].outer) = 0 =>
        \A k \in 1..Len(MeshTriangles(ret.v)) :
          ~ ({i - 1, i + 1} \subseteq
               { MeshTriangles(ret.v)[k][j].section : j \in 1..3 })

\* the body-wall triangles between sections i and i+1, each vertex named by
\* its section and its position in the outer polygon
BodyTriangles(mesh, i) ==
  LET OfPair(tri) == \A j \in 1..3 : tri[j].slot = 0 /\ tri[j].section \in {i, i + 1}
      found == SelectSeq(MeshTriangles(mesh), OfPair)
  IN [k \in 1..Len(found) |-> [j \in 1..3 |-> << found[k][j].section, found[k][j].index >>]]

\* (bottom[j], top[j], bottom[j+1]) and (top[j], top[j+1], bottom[j+1]) for
\* every j of a ring of n vertices, indices mod n
RingOfQuads(i, n) ==
  [k \in 1..(2 * n) |->
     LET j == (k - 1) \div 2
         nextJ == (j + 1) % n
     IN IF k % 2 = 1
        THEN << <<i, j + 1>>, <<i + 1, j + 1>>, <<i, nextJ + 1>> >>
        ELSE << <<i + 1, j + 1>>, <<i + 1, nextJ + 1>>, <<i, nextJ + 1>> >>]

\* C19: between two adjacent sections whose outers are non-empty and have the
\* same vertex count n, loftCrossSections3D emits exactly the 2n triangles
\* (bottom[j], top[j], bottom[j+1]) and (top[j], top[j+1], bottom[j+1]);
\* between a pair with an empty outer or differing counts it emits none, and
\* it returns a mesh in every case.
C19_BodyQuads ==
  ReturnedFrom("loftCrossSections3D") =>
    \A i \in 1..(Len(call.sections) - 1) :
      LET bottom == call.sections[i].outer
          top == call.sections[i + 1].outer
      IN IF Len(bottom) > 0 /\ Len(bottom) = Len(top)
         THEN BodyTriangles(ret.v, i) = RingOfQuads(i, Len(bottom))
         ELSE \A k \in 1..Len(BodyTriangles(ret.v, i)) :
                { BodyTriangles(ret.v, i)[k][j][1] : j \in 1..3 } # {i, i + 1}

\* a loft of a square under a square under a hexagon has returned: one pair
\* of equal counts, one pair of differing counts
C19_Witness ==
  /\ ReturnedFrom("loftCrossSections3D")
  /\ Len(call.sections) = 3
  /\ call.sections[1].outer = Square(10)
  /\ call.sections[2].outer = Square(10)
  /\ call.sections[3].outer = Rect6(4)
  /\ call.taperAmount # QInt(0) /\ call.twistAmount # QInt(0)
  /\ Len(ret.v.indices) >= 24 /\ Len(ret.v.vertices) = 18

\* C17: when the shapes input of a crossSections node holds removed markers,
\* the node's output has one section per input entry, the section at each
\* removed index has an empty outer and no holes, and the section at index i
\* of n has t = ease(i / (n-1)).
C17_RemovedSectionsKept ==
  ReturnedFrom("CrossSectionsNode") /\ (\E i \in 1..Len(call.shapes) : call.shapes[i] = Null) =>
    /\ Len(ret.v) = Len(call.shapes)
    /\ \A i \in 1..Len(call.shapes) :
         /\ call.shapes[i] = Null => ret.v[i].outer = << >> /\ ret.v[i].holes = << >>
         /\ ret.v[i].t = easingFunctions(call.easing,
                           IF Len(call.shapes) > 1 THEN Q(i - 1, Len(call.shapes) - 1)
                           ELSE QInt(0))

\* the sections that contain hole slot k
SlotMembers(sections, k) == { s \in 1..Len(sections) : Len(sections[s].holes) >= k }

\* a and b are consecutive members of the subsequence of sections with slot k
ConsecutiveMembers(sections, k, a, b) ==
  /\ a \in SlotMembers(sections, k) /\ b \in SlotMembers(sections, k) /\ a < b
  /\ \A c \in SlotMembers(sections, k) : ~(a < c /\ c < b)

\* the hole-wall triangles of slot k whose vertices lie in sections a and b,
\* each vertex named by its section and its position in the hole polygon
HoleTriangles(mesh, k, a, b) ==
  LET OfPair(tri) == \A j \in 1..3 : tri[j].slot = k /\ tri[j].section \in {a, b}
      found == SelectSeq(MeshTriangles(mesh), OfPair)
  IN [h \in 1..Len(found) |-> [j \in 1..3 |-> << found[h][j].section, found[h][j].index >>]]

\* the hole slots of a list of sections
HoleSlots(sections) == 1..Max({ Len(sections[s].holes) : s \in 1..Len(sections) } \cup {0})

Reversed(tri) == << tri[3], tri[2], tri[1] >>
Rotations(tri) == { tri, << tri[2], tri[3], tri[1] >>, << tri[3], tri[1], tri[2] >> }

\* the triangles triangulateQuad emits for a ring of n vertices in section a
\* under a ring of n vertices in section b
BodyTriangulation(a, b, n) ==
  LET ring == [i \in 1..(2 * n) |-> IF i <= n THEN << a, i >> ELSE << b, i - n >>]
      indices == triangulateQuad([i \in 1..n |-> i], [i \in 1..n |-> i], 0)
  IN [h \in 1..(2 * n) |-> [j \in 1..3 |-> ring[indices[3 * (h - 1) + j] + 1]]]

\* C22: the hole wall between two tubed hole polygons of n > 0 vertices has
\* 2n triangles, the h-th being the h-th triangle of the body triangulation
\* of the two rings in the opposite vertex order; no hole triangle has all
\* its vertices in one section (no cap).
C22_HoleWallReversed ==
  ReturnedFrom("loftCrossSections3D") =>
    \A k \in HoleSlots(call.sections) :
      /\ \A a, b \in 1..Len(call.sections) :
           ( /\ ConsecutiveMembers(call.sections, k, a, b)
             /\ Len(call.sections[a].holes[k]) > 0
             /\ Len(call.sections[a].holes[k]) = Len(call.sections[b].holes[k]) )
           => LET n == Len(call.sections[a].holes[k])
                  wall == HoleTriangles(ret.v, k, a, b)
              IN /\ Len(wall) = 2 * n
                 /\ \A h \in 1..(2 * n) :
                      wall[h] \in Rotations(Reversed(BodyTriangulation(a, b, n)[h]))
      /\ \A h \in 1..Len(MeshTriangles(ret.v)) :
           LET tri == MeshTriangles(ret.v)[h]
           IN tri[1].slot = k => Cardinality({ tri[j].section : j \in 1..3 }) = 2

\* a hexagonal hole has been tubed to the hexagonal hole of the next section
C22_Witness ==
  /\ ReturnedFrom("loftCrossSections3D")
  /\ Len(call.sections) >= 2
  /\ call.sections[1].outer = Rect6(4) /\ call.sections[2].outer = Rect6(4)
  /\ Len(call.sections[1].holes) = 1 /\ Len(call.sections[2].holes) = 1
  /\ call.twistAmount # QInt(0)
  /\ Len(HoleTriangles(ret.v, 1, 1, 2)) = 12

\* C21: addAlternatingHoles returns as many sections as it is given; a section
\* whose index satisfies the predicate has its holes followed by exactly one
\* new hole, and the same outer and t; every other section is returned as it
\* was.
C21_HolesAppended ==
  ReturnedFrom("addAlternatingHoles") =>
    /\ Len(ret.v) = Len(call.sections)
    /\ \A i \in 1..Len(call.sections) :
         IF (i - 1) % call.frequency = 0
         THEN /\ Len(ret.v[i].holes) = Len(call.sections[i].holes) + 1
              /\ SubSeq(ret.v[i].holes, 1, Len(call.sections[i].holes))
                   = call.sections[i].holes
              /\ ret.v[i].outer = call.sections[i].outer
              /\ ret.v[i].t = call.sections[i].t
         ELSE ret.v[i] = call.sections[i]

\* three sections that already have a hole each, a second hole added to the
\* first and the third
C21_Witness ==
  /\ ReturnedFrom("addAlternatingHoles")
  /\ Len(call.sections) = 3 /\ call.frequency = 2
  /\ \A i \in 1..3 : Len(call.sections[i].holes) = 1 /\ call.sections[i].outer # << >>
  /\ Len(ret.v[1].holes) = 2 /\ Len(ret.v[2].holes) = 1 /\ Len(ret.v[3].holes) = 2
  /\ ret.v[1].holes[1] # ret.v[1].holes[2]

\* C28: in the sections generateCrossSections returns, with no easing or with
\* linear, easeOut or easeInOut, every t is in [0, 1] and no t is smaller than
\* the t of the section before it.
C28_HeightsMonotone ==
  ReturnedFrom("generateCrossSections") =>
    /\ \A i \in 1..Len(ret.v) : QLe(QInt(0), ret.v[i].t) /\ QLe(ret.v[i].t, QInt(1))
    /\ \A i \in 1..(Len(ret.v) - 1) : QLe(ret.v[i].t, ret.v[i + 1].t)

\* six sections under easeInOut, with heights on both branches of the curve
C28_Witness ==
  /\ ReturnedFrom("generateCrossSections")
  /\ call.easing = "easeInOut" /\ Len(ret.v) = 6
  /\ ret.v[2].t = Q(2, 25) /\ ret.v[5].t = Q(23, 25)

\* the steps (from 0) generateSpinePoints is to keep
KeptSteps(steps, r) == { i \in 0..(steps - 1) : r = 0 \/ i % r # 0 }

\* the j-th kept step
KeptStep(steps, r, j) ==
  CHOOSE i \in KeptSteps(steps, r) :
    Cardinality({ h \in KeptSteps(steps, r) : h < i }) = j - 1

\* C30: generateSpinePoints returns one point for each step i that is not a
\* multiple of a positive removeFrequency, in order and with nothing in the
\* place of the others (the radius of an unperturbed point tells its step);
\* with removeFrequency 0 it returns one point for each step.
C30_RemovedStepsOmitted ==
  ReturnedFrom("generateSpinePoints") =>
    /\ Len(ret.v) = Cardinality(KeptSteps(call.steps, call.removeFrequency))
    /\ call.removeFrequency = 0 => Len(ret.v) = call.steps
    /\ (call.steps > 1 /\ call.radiusVariation = Num(0)) =>
         \A j \in 1..Len(ret.v) :
           ret.v[j] = QAdd(QInt(StartRadius),
                           QMul(QInt(EndRadius - StartRadius),
                                Q(KeptStep(call.steps, call.removeFrequency, j),
                                  call.steps - 1)))

\* six steps with every third removed: the points of steps 1, 2, 4 and 5
C30_Witness ==
  /\ ReturnedFrom("generateSpinePoints")
  /\ call.steps = 6 /\ call.removeFrequency = 3 /\ call.radiusVariation = Num(0)
  /\ ret.v = << QInt(13), QInt(11), QInt(7), QInt(5) >>

\* C24: every index of a mesh returned by loftCrossSections3D, by the
\* tip-closing loftCrossSections3D of loft3D.ts or by createSpineGeometry
\* refers to a vertex of the mesh: 0 <= index < number of vertices.
C24_IndicesInRange ==
  ( \/ ReturnedFrom("loftCrossSections3D")
    \/ ReturnedFrom("legacyLoftCrossSections3D")
    \/ ReturnedFrom("createSpineGeometry") ) =>
    \A k \in 1..Len(ret.v.indices) :
      0 <= ret.v.indices[k] /\ ret.v.indices[k] < Len(ret.v.vertices)

\* C23: when an evaluateGraph() pass over an acyclic graph has ended, execute
\* has been invoked exactly once for every node of a registered type.
C23_ExecutedOncePerPass ==
  (Ended("evaluateGraph") /\ Acyclic) =>
    \A n \in NodeIds : Registered(n) => log.execs[n] = 1

\* a pass has ended on an acyclic graph in which one node, listed last, is
\* read by the two nodes listed before it through a connection each
C23_Witness ==
  /\ Ended("evaluateGraph") /\ Acyclic
  /\ Len(graph.nodes) = 3 /\ Len(graph.connections) = 2
  /\ \A n \in NodeIds : Registered(n) /\ log.execs[n] = 1
  /\ graph.connections[1].fromNodeId = 3 /\ graph.connections[1].toNodeId = 1
  /\ graph.connections[2].fromNodeId = 3 /\ graph.connections[2].toNodeId = 2

\* the nodes of type pattern2D
PatternNodes == { n \in NodeIds : FindNode(n).type = "pattern2D" }

\* C26: a pattern2D node whose resolved steps input is the non-negative
\* integer n outputs a pattern of exactly n instances, n = 0 included.
C26_PatternNodeCount ==
  Ended("evaluateGraph") =>
    \A n \in PatternNodes :
      ( /\ n \in DOMAIN cache /\ n \in DOMAIN log.inputs
        /\ Get(log.inputs[n], "steps").k = "number"
        /\ Get(log.inputs[n], "steps").v >= 0 )
      => cache[n].pattern = Pattern(Get(log.inputs[n], "steps").v)

\* ------------------------------------------------------------ NodeEditor
\* The editor component keeps the graph in React state and builds its
\* evaluator with useMemo(() => new GraphEvaluator(graph), [graph]); every
\* handler that changes the graph hands setGraph a new object.  After a
\* render in which the graph changed the effect runs evaluateGraph() and then
\* getGeometryOutputs().  The variable call holds the component's state.
MaxEdits == 4        \* handler invocations in one editor session
MaxNodeIds == 2      \* node ids nextNodeId hands out

\* the palette entries the editor is exercised with
PaletteTypes == {"number", "pattern2D", "loft"}

\* the values typed into an input field
FieldValues == { Num(0), Num(OverrideValue) }

NoPort == [nodeId |-> 0, portId |-> ""]

\* the counters of a log for the nodes of graph g
ZeroCountsOf(g) == [n \in { g.nodes[j].id : j \in 1..Len(g.nodes) } |-> 0]

\* new GraphEvaluator(g): the object a render constructs
NewGraphEvaluator(g) ==
  [graph |-> g, cache |-> EmptyCache, history |-> << >>,
   log |-> [EmptyLog EXCEPT !.unknown = ZeroCountsOf(g), !.execs = ZeroCountsOf(g),
                            !.getExecs = ZeroCountsOf(g)]]

\* the evaluator object of the previous render
PreviousEvaluator == [graph |-> graph, cache |-> cache, history |-> history, log |-> log]

\* a plausible slip: useMemo with an empty dependency list
useMemoOnce(previous, g, changed) == previous

\* line 34: useMemo(() => new GraphEvaluator(graph), [graph])
useMemo(previous, g, changed) == IF changed THEN NewGraphEvaluator(g) ELSE previous

\* the component after a handler has run: its graph state, and the effect
\* scheduled when the graph is a new object
Rendered(g, changed, from, next) ==
  [fn |-> "NodeEditor", graph |-> g, nextNodeId |-> next, connectingFrom |-> from,
   effect |-> IF changed THEN "pending" ELSE call.effect,
   edits |-> call.edits + 1,
   dropped |-> IF changed THEN cache ELSE call.dropped]

\* handlers run between renders, when no effect is pending or running
CanHandle ==
  /\ call.fn = "NodeEditor" /\ call.effect = "done"
  /\ stack = << >> /\ thrown = "none"
  /\ call.edits < MaxEdits

InitEditor ==
  /\ Constructed({EmptyGraph})
  /\ call = [fn |-> "NodeEditor", graph |-> EmptyGraph, nextNodeId |-> 1,
             connectingFrom |-> NoPort, effect |-> "pending", edits |-> 0,
             dropped |-> EmptyCache]
  /\ ret = NoReturn

\* lines 43-56: addNode
addNode ==
  /\ CanHandle /\ call.nextNodeId <= MaxNodeIds
  /\ \E nodeType \in PaletteTypes :
       LET g == [call.graph EXCEPT !.nodes =
                   Append(@, [id |-> call.nextNodeId, type |-> nodeType,
                              inputValues |-> EmptyRecord])]
           ev == useMemo(PreviousEvaluator, g, TRUE)
       IN /\ graph' = ev.graph /\ cache' = ev.cache
          /\ history' = ev.history /\ log' = ev.log
          /\ call' = Rendered(g, TRUE, call.connectingFrom, call.nextNodeId + 1)
  /\ UNCHANGED <<stack, evaluated, visiting, thrown, result, geometries, ret>>

\* lines 127-146: handlePortClick; an output port starts a connection, an
\* input port completes the one that was started
handlePortClick ==
  /\ CanHandle
  /\ \E j \in 1..Len(call.graph.nodes), isOutput \in BOOLEAN :
       LET node == call.graph.nodes[j]
           newConnection == [fromNodeId |-> call.connectingFrom.nodeId,
                             fromPortId |-> call.connectingFrom.portId,
                             toNodeId |-> node.id, toPortId |-> ConnPort(node.type)]
           changed == ~isOutput /\ call.connectingFrom # NoPort
           g == IF changed
                THEN [call.graph EXCEPT !.connections = Append(@, newConnection)]
                ELSE call.graph
           ev == useMemo(PreviousEvaluator, g, changed)
       IN /\ changed => Len(call.graph.connections) < MaxConns
          /\ graph' = ev.graph /\ cache' = ev.cache
          /\ history' = ev.history /\ log' = ev.log
          /\ call' = Rendered(g, changed,
                              IF isOutput
                              THEN [nodeId |-> node.id, portId |-> OutPort(node.type)]
                              ELSE IF changed THEN NoPort ELSE call.connectingFrom,
                              call.nextNodeId)
  /\ UNCHANGED <<stack, evaluated, visiting, thrown, result, geometries, ret>>

\* lines 170-178: deleteNode drops the node and its connections
deleteNode ==
  /\ CanHandle
  /\ \E j \in 1..Len(call.graph.nodes) :
       LET nodeId == call.graph.nodes[j].id
           g == [nodes |-> SelectSeq(call.graph.nodes, LAMBDA n : n.id # nodeId),
                 connections |-> SelectSeq(call.graph.connections,
                                   LAMBDA c : c.fromNodeId # nodeId /\ c.toNodeId # nodeId)]
           ev == useMemo(PreviousEvaluator, g, TRUE)
       IN /\ graph' = ev.graph /\ cache' = ev.cache
          /\ history' = ev.history /\ log' = ev.log
          /\ call' = Rendered(g, TRUE, call.connectingFrom, call.nextNodeId)
  /\ UNCHANGED <<stack, evaluated, visiting, thrown, result, geometries, ret>>

\* lines 270-279: onInputChange stores the override of one input port
onInputChange ==
  /\ CanHandle
  /\ \E j \in 1..Len(call.graph.nodes), value \in FieldValues :
       LET node == call.graph.nodes[j]
           g == [call.graph EXCEPT !.nodes[j].inputValues =
                   Put(@, ConnPort(node.type), value)]
           ev == useMemo(PreviousEvaluator, g, TRUE)
       IN /\ node.type # "loft"
          /\ graph' = ev.graph /\ cache' = ev.cache
          /\ history' = ev.history /\ log' = ev.log
          /\ call' = Rendered(g, TRUE, call.connectingFrom, call.nextNodeId)
  /\ UNCHANGED <<stack, evaluated, visiting, thrown, result, geometries, ret>>

\* line 37: the effect calls evaluator.evaluateGraph()
EffectEvaluateGraph ==
  /\ call.fn = "NodeEditor" /\ call.effect = "pending"
  /\ stack' = << Frame("evaluateGraph", 0, "") >>
  /\ history' = Append(history, [op |-> "evaluateGraph", node |-> 0])
  /\ thrown' = "none"
  /\ log' = LogNewCall(log)
  /\ call' = [call EXCEPT !.effect = "evaluateGraph"]
  /\ UNCHANGED <<ret, graph, cache, evaluated, visiting, result, geometries>>

\* line 38: then evaluator.getGeometryOutputs()
EffectGetGeometryOutputs ==
  /\ call.fn = "NodeEditor" /\ call.effect = "evaluateGraph"
  /\ stack = << >> /\ thrown = "none"
  /\ stack' = << Frame("getGeometryOutputs", 0, "") >>
  /\ history' = Append(history, [op |-> "getGeometryOutputs", node |-> 0])
  /\ thrown' = "none"
  /\ log' = LogNewCall(log)
  /\ call' = [call EXCEPT !.effect = "getGeometryOutputs"]
  /\ UNCHANGED <<ret, graph, cache, evaluated, visiting, result, geometries>>

\* line 39: onGeometryChange?.(geometries) ends the effect
EffectDone ==
  /\ call.fn = "NodeEditor" /\ call.effect = "getGeometryOutputs"
  /\ stack = << >> /\ thrown = "none"
  /\ call' = [call EXCEPT !.effect = "done"]
  /\ UNCHANGED <<ret, evaluatorVars>>

\* getNodeOutput is reached through getGeometryOutputs only, for nodes the
\* pass just run has cached: its evaluate-first branch (lines 86-89) has no
\* step here because no behaviour of the editor enables it
NextEditor ==
  \/ addNode
  \/ handlePortClick
  \/ deleteNode
  \/ onInputChange
  \/ EffectEvaluateGraph
  \/ EffectGetGeometryOutputs
  \/ EffectDone
  \/ EvaluateGraphEnter
  \/ EvaluateGraphLoop
  \/ VisitEnter
  \/ VisitDeps
  \/ VisitExit
  \/ EvaluateNodeEnter
  \/ EvaluateNodeSource
  \/ EvaluateNodeRead
  \/ EvaluateNodeExecute
  \/ GetNodeOutputReturn
  \/ GetGeometryOutputsEnter
  \/ GetGeometryOutputsLoop
  \/ GetGeometryOutputsCollect

SpecEditor == InitEditor /\ [][NextEditor]_vars

\* C29: when execute of a registered node type returns normally, the mapping
\* it returns has a value for every output port the definition declares; a
\* loft node whose crossSections input is missing or is not a list returns
\* an empty mesh and does not raise.
C29_EveryOutputPresent ==
  ReturnedFrom("execute") =>
    /\ ~ret.v.threw =>
         \A j \in 1..Len(nodeDefinitions[call.type].outputs) :
           LET port == nodeDefinitions[call.type].outputs[j].id
           IN port \in DOMAIN ret.v.outputs /\ ret.v.outputs[port].k # "undefined"
    /\ ( /\ call.type = "loft"
         /\ ~Truthy(Get(call.inputs, "crossSections")) \/ ~IsArray(Get(call.inputs, "crossSections")) )
       => ~ret.v.threw /\ ret.v.outputs = [geometry |-> Geometry(0)]

\* an addHoles node with nothing on its crossSections input has returned the
\* empty list, and nodes of five other types have returned too
C29_Witness ==
  /\ ReturnedFrom("execute") /\ ~ret.v.threw
  /\ call.type = "addHoles" /\ Get(call.inputs, "crossSections") = Undef
  /\ ret.v.outputs = [crossSections |-> Sections(0)]

\* C27: the cache does not outlive a change to the graph.  After a handler
\* of the editor has changed the graph (node added or deleted, connection
\* added, connections of a deleted node removed, input override changed) the
\* evaluator in use is the one built for the new graph and starts with an
\* empty cache, so an output that getNodeOutput returns from the cache was
\* stored by an execute that ran after the change, on the overrides the
\* node has now.
C27_CacheNotStale ==
  call.fn = "NodeEditor" =>
    /\ graph = call.graph
    /\ call.effect = "pending" => cache = EmptyCache
    /\ ( /\ stack # << >> /\ Top.fn = "getNodeOutput"
         /\ CacheHas(Top.node) )
       => /\ log.execs[Top.node] >= 1
          /\ \A port \in DOMAIN FindNode(Top.node).inputValues :
               log.inputs[Top.node][port] = FindNode(Top.node).inputValues[port]

\* the evaluator of the previous graph had cached outputs when an input
\* override was changed, and getNodeOutput is about to answer from the cache
\* of the evaluator built for the changed graph
C27_Witness ==
  /\ call.fn = "NodeEditor" /\ call.effect = "getGeometryOutputs"
  /\ call.dropped # EmptyCache
  /\ \E j \in 1..Len(graph.nodes) : graph.nodes[j].inputValues # EmptyRecord
  /\ stack # << >> /\ Top.fn = "getNodeOutput" /\ CacheHas(Top.node)

====
